---- MODULE Spec2Model ----
(***************************************************************************)
(* A model of PEDA's live process introspection engine (src/peda.py):      *)
(* the address-space snapshot (get_vmmap), the value classifier            *)
(* (examine_mem_value), the reference chain walker                         *)
(* (examine_mem_reference), ELF section rebasing (elfheader,               *)
(* elfheader_solib) and the memoization cache around them                  *)
(* (pedaGDBCommand.invoke).                                                *)
(*                                                                         *)
(* Addresses and machine words are small naturals.  One address holds one  *)
(* machine word.  Strings that the code only compares as a whole are TLA+  *)
(* strings; strings the code searches (region names, permission strings)   *)
(* are sequences of one-character strings.                                 *)
(***************************************************************************)
EXTENDS Integers, Sequences, FiniteSets, TLC

\* ------------------------------------------------------------------ bounds
\* Addresses of the debuggee are 0 .. MaxAddr; MaxAddr + 1 is a value beyond
\* the address space.
MaxAddr == 3
\* Depths handed to examine_mem_reference are 0 .. MaxDepth.
MaxDepth == 2
\* Iterations the walker's loop is followed for before it is reported as not
\* having ended.
LoopFuel == 8
\* The page size (0x1000 in the code), scaled to the model's address space.
PageSize == 2
\* Link-time bases of an image are 0 .. MaxLink, runtime bases 0 .. MaxBase.
MaxLink == 1
MaxBase == 7
\* "peda <cmd>" is invoked at most MaxInvocations times.
MaxInvocations == 2

\* --------------------------------------------------------- program constants
\* examine_mem_reference: "if depth <= 0: depth = 0xffffffff", as its two
\* 16-bit halves (0xffff, 0xffff).
DepthUnboundedHi == 65535
DepthUnboundedLo == 65535
\* examine_mem_reference(self, value, depth=5)
DefaultDepth == 5

\* ------------------------------------------------------------------- state
VARIABLES
    pid,        \* getpid(): 0 when the debuggee is not running
    execfile,   \* getfile(): the exec file's path, <<>> when none is known
    target,     \* "local", "qemu" (remote, QEMU stub) or "remote"
    procmaps,   \* /proc/<pid>/maps: [readable, lines]
    infofiles,  \* output of "info files": [ok, lines]
    sections,   \* output of "maintenance info sections": [ok, lines]
    regsp,      \* the stack pointer register
    mem,        \* debuggee memory: address -> cell
    call,       \* the last query made of the engine
    ret,        \* what that query returned
    arch,       \* output of "show architecture"
    stk,        \* the debuggee's stack above its base: "ret" (a return address) or "data" per slot
    cache,      \* the memoization cache: key -> entry
    invocation, \* the number of "peda <cmd>" invocations so far
    stage,      \* where pedaGDBCommand.invoke stands
    served,     \* the last answer a memoized query gave
    readelf,    \* output of "readelf -W -a" on the file: [ok, lines]
    eflags,     \* getreg("eflags"): [some, bits]
    cpsr,       \* getreg("cpsr"): [some, bits]
    inst,       \* the instruction at pc: [opcode, operand, rn]
    regs,       \* the general registers "info registers" lists, by name
    prev_insts, \* the instructions disassembled before pc
    bytemem,    \* debuggee memory by bytes: address -> [v, r, w]
    written,    \* the last word write_int wrote in full: [some, at, word]
    hook_stop,  \* the body of the user-defined command hook-stop, a list of lines
    SAVED_COMMANDS, \* peda.SAVED_COMMANDS: command name -> definition text
    enabled,    \* peda.enabled
    lists_empty,    \* "show user" prints a header for a command with an empty body
    at_disable  \* the body hook-stop had when "disable" took effect: [some, body]

vars ==
    <<pid, execfile, target, procmaps, infofiles, sections, regsp, mem, call, ret,
      arch, stk, cache, invocation, stage, served, readelf,
      eflags, cpsr, inst, regs, prev_insts,
      bytemem, written, hook_stop, SAVED_COMMANDS, enabled, lists_empty, at_disable>>

\* The debuggee and what the debugger reports of it.
env == <<pid, execfile, target, procmaps, infofiles, sections, regsp, mem>>

\* The memoization cache and the command dispatcher around it.
memo == <<arch, stk, cache, invocation, stage, served>>

\* What the static and ISA analyses read: tool output, flags, instructions.
isa == <<readelf, eflags, cpsr, inst, regs, prev_insts>>

\* The debuggee's memory by bytes and the last word written to it.
wr == <<bytemem, written>>

\* The user-defined hook and what PEDA keeps of it.
hk == <<hook_stop, SAVED_COMMANDS, enabled, lists_empty, at_disable>>

aux == <<isa, wr, hk>>

Addr == 0 .. MaxAddr
Values == 0 .. (MaxAddr + 1)

\* A memory cell: a machine word whose bytes are not all printable (its
\* number), a word whose bytes are all printable ("str": is_printable of its
\* int2hexstr holds), or an address the debugger cannot read ("nomem").
WordCell(n) == [k |-> "word", n |-> n]
StrCell == [k |-> "str", n |-> 0]
NoMem == [k |-> "nomem", n |-> 0]
Cells == {WordCell(n) : n \in Addr} \cup {StrCell, NoMem}

\* ------------------------------------------------------------ python values
\* A value of the classifier's tuples: an int, a hex string (to_hex of an
\* int), another string, or None.
IntV(n) == [k |-> "int", n |-> n, s |-> ""]
HexV(n) == [k |-> "hex", n |-> n, s |-> ""]
StrV(s) == [k |-> "str", n |-> 0, s |-> s]
NoneV == [k |-> "none", n |-> 0, s |-> ""]

\* utils.to_int: int(str(val), 0), None when that fails.  An int and the hex
\* string of an int parse; the empty string, a quoted x/s string, a
\* disassembly line, "MemError" and "--> ..." do not.
to_int(val) == IF val.k \in {"int", "hex"} THEN IntV(val.n) ELSE NoneV

\* Strings the code searches: sequences of one-character strings.
InStr(c, str) == \E i \in DOMAIN str : str[i] = c

Contains(hay, needle) ==
    \E i \in 0 .. (Len(hay) - Len(needle)) :
        \A j \in 1 .. Len(needle) : hay[i + j] = needle[j]

HeapName == <<"[", "h", "e", "a", "p", "]">>
StackName == <<"[", "s", "t", "a", "c", "k", "]">>
MappedName == <<"m", "a", "p", "p", "e", "d">>
UnknownName == <<"u", "n", "k", "n", "o", "w", "n">>
BinFile == <<"/", "a">>
LibFile == <<"/", "l">>
NoFile == <<>>

PermRW == <<"r", "w", "-", "p">>
PermRX == <<"r", "-", "x", "p">>
PermRO == <<"r", "-", "-", "p">>
PermRWX == <<"r", "w", "x", "p">>
PermUnknown == <<"r", "w", "x">>

\* A memory range: (start, end, perm, mapname).
Range(start, end, perm, mapname) ==
    [start |-> start, end |-> end, perm |-> perm, mapname |-> mapname]

\* What a call returns: a value, None, or an exception that left it.
Ok(v) == [st |-> "ok", val |-> v]
RetNone == [st |-> "none", val |-> <<>>]
Raised == [st |-> "raise", val |-> <<>>]

\* --------------------------------------------------------- debugging helpers
\* getpid(): None (0 here) when the program is not being run.
getpid == pid

\* getfile(): the exec file named by "info files", None (<<>> here) without one.
getfile == execfile

\* is_target_remote(): "serial line" in the output of "info program".
is_target_remote == target # "local"

\* getreg("sp")
getreg_sp == regsp

\* read_mem / read_int: the word at an address, None when the read fails.
readable(address) == address \in Addr /\ mem[address].k # "nomem"

\* A selector of get_vmmap: None, "all", "binary", "heap", another name, or
\* an address (a name to_int parses).
SelNone == [k |-> "none", s |-> <<>>, n |-> 0]
SelAll == [k |-> "all", s |-> <<>>, n |-> 0]
SelBinary == [k |-> "binary", s |-> <<>>, n |-> 0]
SelHeap == [k |-> "heap", s |-> <<>>, n |-> 0]
SelName(s) == [k |-> "name", s |-> s, n |-> 0]
SelAddr(n) == [k |-> "addr", s |-> <<>>, n |-> n]

\* (x + 0xfff) & ~0xfff and x & ~0xfff, on the model's pages.
PageDown(x) == x - (x % PageSize)
PageUp(x) == PageDown(x + (PageSize - 1))

\* -------------------------------------------------------------- AddressSpace
\* The range _get_info_files_maps closes for the object file read last.
ClosedRange(start, last) == Range(start, PageUp(last.stop), PermRWX, last.objfile)

\* One address line of _get_info_files_maps' loop, objfile being its file.
info_files_line(l, st, objfile) ==
    [maps |-> IF objfile \notin st.seen_files /\ st.last_file # <<>>
              THEN Append(st.maps, ClosedRange(st.start, st.last_file[Len(st.last_file)]))
              ELSE st.maps,
     main_exe |-> st.main_exe,
     last_file |-> Append(st.last_file, [objfile |-> objfile, stop |-> l.stop]),
     seen_files |-> st.seen_files \cup {objfile},
     start |-> IF objfile \notin st.seen_files THEN l.start - l.secoff ELSE st.start]

\* One line of the loop.  A line is the main executable's name ("exe"), an
\* address line with 5 or 7 fields ("addr": main says which), an address line
\* with another number of fields ("bad"), or anything else.
info_files_step(l, st) ==
    IF l.kind = "exe" THEN [st EXCEPT !.main_exe = l.objfile]
    ELSE IF l.kind # "addr" THEN st
    ELSE info_files_line(l, st, IF l.main THEN st.main_exe ELSE l.objfile)

\* _get_info_files_maps' loop.  st: the loop's variables (maps, main_exe,
\* last_file, seen_files, start).
RECURSIVE info_files_loop(_, _)
info_files_loop(lines, st) ==
    IF lines = <<>> THEN st
    ELSE info_files_loop(Tail(lines), info_files_step(Head(lines), st))

\* _get_info_files_maps after its loop: last_file[-1] raises when no address
\* line was read.
info_files_end(st) ==
    IF st.last_file = <<>> THEN Raised
    ELSE Ok(Append(st.maps, ClosedRange(st.start, st.last_file[Len(st.last_file)])))

\* _get_info_files_maps(): one rwxp range per object file of "info files".
get_info_files_maps ==
    IF ~infofiles.ok THEN Raised                \* False.splitlines()
    ELSE IF Len(infofiles.lines) <= 3 THEN Ok(<<>>)
    ELSE info_files_end(info_files_loop(infofiles.lines,
             [maps |-> <<>>, main_exe |-> NoFile, last_file |-> <<>>,
              seen_files |-> {}, start |-> 0]))

\* A line of /proc/<pid>/maps as a range, an empty name read as "mapped".
proc_maps_range(l) ==
    Range(l.start, l.end, l.perm, IF l.mapname = <<>> THEN MappedName ELSE l.mapname)

\* The lines of /proc/<pid>/maps the pattern matches.
RECURSIVE parse_proc_maps(_)
parse_proc_maps(lines) ==
    IF lines = <<>> THEN <<>>
    ELSE (IF Head(lines).ok THEN <<proc_maps_range(Head(lines))>> ELSE <<>>)
         \o parse_proc_maps(Tail(lines))

\* The stack range _get_allmaps_linux adds for a QEMU target: 0x8000 bytes
\* from the page of sp.
StackRange(sp) == Range(PageDown(sp), PageDown(sp) + 8 * PageSize, PermRWX, StackName)

\* "maps.append((sp, sp + 0x8000, 'rwxp', '[stack]'))"
add_stack(maps) == IF maps.st = "raise" THEN Raised ELSE Ok(Append(maps.val, StackRange(getreg_sp)))

\* _get_allmaps_linux(pid, remote)
get_allmaps_linux ==
    IF is_target_remote /\ target = "qemu" THEN add_stack(get_info_files_maps)
    ELSE IF is_target_remote
    THEN \* "remote get" into a temporary file: a failed transfer leaves it empty
         Ok(IF procmaps.readable THEN parse_proc_maps(procmaps.lines) ELSE <<>>)
    ELSE IF ~procmaps.readable THEN Raised      \* open(mpath)
    ELSE Ok(parse_proc_maps(procmaps.lines))

\* The name get_vmmap filters with: "binary" is the exec file, "heap" is
\* "[heap]", None and "all" are "".
SelectorName(name) ==
    CASE name.k = "binary" -> getfile
      [] name.k = "heap" -> HeapName
      [] name.k \in {"none", "all"} -> <<>>
      [] OTHER -> name.s

\* get_vmmap's filter of the maps it retrieved.
select_maps(maps, name) ==
    IF name.k # "addr"
    THEN SelectSeq(maps, LAMBDA m : Contains(m.mapname, SelectorName(name)))
    ELSE SelectSeq(maps, LAMBDA m : m.start <= name.n /\ name.n < m.end)

\* "except Exception": the maps stay [] when retrieving them raised.
maps_or_empty(got) == IF got.st = "raise" THEN <<>> ELSE got.val

\* get_vmmap(name) while the program runs: the maps retrieved, filtered by name.
live_vmmap(name) == Ok(select_maps(maps_or_empty(get_allmaps_linux), name))

\* ------------------------------------------------------------------ ElfModel
\* The type elfheader gives a section from its attributes.
AttrType(attr) ==
    IF "CODE" \in attr THEN "code"
    ELSE IF "READONLY" \in attr THEN "rodata"
    ELSE "data"

Header(hname, start, end, type) ==
    [hname |-> hname, start |-> start, end |-> end, type |-> type]

\* One parsed line of elfheader's loop: a header whose start is below its file
\* offset is skipped; one whose start is below elfbase is moved up by elfbase,
\* start and end together.
elfheader_line(l, elfbase) ==
    IF l.start < l.offset THEN <<>>
    ELSE IF l.start < elfbase
    THEN <<Header(l.hname, l.start + elfbase, l.end + elfbase, AttrType(l.attr))>>
    ELSE <<Header(l.hname, l.start, l.end, AttrType(l.attr))>>

RECURSIVE elfheader_parse(_, _)
elfheader_parse(lines, elfbase) ==
    IF lines = <<>> THEN <<>>
    ELSE elfheader_line(Head(lines), elfbase) \o elfheader_parse(Tail(lines), elfbase)

\* "binmap[0][0] if binmap else 0"
first_start(maps) == IF maps.st = "ok" /\ maps.val # <<>> THEN maps.val[1].start ELSE 0

\* elfheader()'s elfbase: the start of the first range of the binary when the
\* program runs (get_vmmap("binary") then takes its live path), else 0.
elfheader_elfbase == IF getpid # 0 THEN first_start(live_vmmap(SelBinary)) ELSE 0

\* elfheader(): the headers of the debugged file, {} when "maintenance info
\* sections" gives nothing.
elfheader ==
    IF ~sections.ok THEN <<>>
    ELSE elfheader_parse(sections.lines, elfheader_elfbase)

\* _get_offline_maps' picks: of the headers of one type sorted by start, the
\* first one's start and the last one's end.
OfType(headers, type) == SelectSeq(headers, LAMBDA h : h.type = type)

FirstByStart(hlist) ==
    hlist[CHOOSE i \in DOMAIN hlist :
            \A j \in DOMAIN hlist :
                hlist[i].start < hlist[j].start \/ (hlist[i].start = hlist[j].start /\ i <= j)]

LastByStart(hlist) ==
    hlist[CHOOSE i \in DOMAIN hlist :
            \A j \in DOMAIN hlist :
                hlist[i].start > hlist[j].start \/ (hlist[i].start = hlist[j].start /\ i >= j)]

\* "(hlist[0][1][0], hlist[-1][1][1], perm, name)" of the sorted hlist.
extent(hlist, perm, name) == Range(FirstByStart(hlist).start, LastByStart(hlist).end, perm, name)

\* _get_offline_maps' three ranges; hlist[0] raises when the headers lack a
\* code, a rodata or a data section.
offline_ranges(code, rodata, data, name) ==
    IF code = <<>> \/ rodata = <<>> \/ data = <<>> THEN Raised
    ELSE Ok(<<extent(code, <<"r", "x", "-", "p">>, name),
              extent(rodata, PermRO, name),
              extent(data, PermRW, name)>>)

offline_maps_of(headers, name) ==
    offline_ranges(OfType(headers, "code"), OfType(headers, "rodata"),
                   OfType(headers, "data"), name)

\* _get_offline_maps(): None without an exec file.
get_offline_maps == IF getfile = NoFile THEN RetNone ELSE offline_maps_of(elfheader, getfile)

\* "try: return _get_offline_maps() except: return []"
offline_or_empty(off) == IF off.st = "raise" THEN Ok(<<>>) ELSE off

\* get_vmmap(name): not running, the offline maps whatever the name; running,
\* the live maps filtered by name.
get_vmmap(name) ==
    IF getpid = 0 THEN offline_or_empty(get_offline_maps) ELSE live_vmmap(name)

\* elfheader_solib's hardcoded header types.
SolibCodeNames == {".text", ".fini", ".init", ".plt", "__libc_freeres_fn"}
SolibDataNames ==
    {".dynamic", ".data", ".ctors", ".dtors", ".jrc", ".got", ".got.plt", ".bss", ".tdata",
     ".tbss", ".data.rel.ro", ".fini_array", "__libc_subfreeres", "__libc_thread_subfreeres"}

SolibType(hname) ==
    IF hname \in SolibCodeNames THEN "code"
    ELSE IF hname \in SolibDataNames THEN "data"
    ELSE "rodata"

\* One header of elfheader_solib's loop, of a library whose name holds solib:
\* a start below elfbase is moved up by elfbase, and so is an end below
\* elfbase, each on its own test.
solib_line(l, solib, elfbase) ==
    IF l.kind = "addr" /\ ~l.main /\ Contains(l.objfile, solib)
    THEN <<Header(l.section,
                  IF l.start < elfbase THEN l.start + elfbase ELSE l.start,
                  IF l.stop < elfbase THEN l.stop + elfbase ELSE l.stop,
                  SolibType(l.section))>>
    ELSE <<>>

RECURSIVE elfheader_solib_parse(_, _, _)
elfheader_solib_parse(lines, solib, elfbase) ==
    IF lines = <<>> THEN <<>>
    ELSE solib_line(Head(lines), solib, elfbase)
         \o elfheader_solib_parse(Tail(lines), solib, elfbase)

\* elfheader_solib(solib): elfbase is the start of the first range named solib.
elfheader_solib(solib) ==
    IF ~infofiles.ok THEN <<>>
    ELSE elfheader_solib_parse(infofiles.lines, solib, first_start(get_vmmap(SelName(solib))))

\* ----------------------------------------------------------- ValueClassifier
\* "if maps is None: maps = self.get_vmmap()"
maps_or_default(maps) == IF maps.st = "none" THEN get_vmmap(SelNone) ELSE maps

\* get_vmrange's search: the first range of a non-empty list that holds the
\* address, None when none does.  With no maps at all ("failed to get the
\* vmmap"), one byte is read at the address and, when that works, its page is
\* reported as a range 'rwx' named 'unknown'.
first_hit(hits) == IF hits # <<>> THEN Ok(hits[1]) ELSE RetNone

\* The search with a range's end taken as its last address.
vmrange_in_inclusive(address, list) ==
    IF list # <<>>
    THEN first_hit(SelectSeq(list, LAMBDA m : m.start <= address /\ m.end >= address))
    ELSE IF readable(address)
         THEN Ok(Range(PageDown(address), PageDown(address) + PageSize, PermUnknown, UnknownName))
         ELSE RetNone

vmrange_in(address, list) ==
    IF list # <<>>
    THEN first_hit(SelectSeq(list, LAMBDA m : m.start <= address /\ m.end > address))
    ELSE IF readable(address)
         THEN Ok(Range(PageDown(address), PageDown(address) + PageSize, PermUnknown, UnknownName))
         ELSE RetNone

\* A list the code tests with "if maps:" (None and [] alike are no maps).
list_of(ms) == IF ms.st = "ok" THEN ms.val ELSE <<>>

\* get_vmrange(address, maps)
get_vmrange(address, maps) == vmrange_in(address, list_of(maps_or_default(maps)))

\* "vmrange and c in vmrange[2]"
HasPerm(vmrange, c) == vmrange.st = "ok" /\ InStr(c, vmrange.val.perm)

\* is_executable, is_writable, is_address
is_executable(address, maps) == HasPerm(get_vmrange(address, maps), "x")

is_writable(address, maps) == HasPerm(get_vmrange(address, maps), "w")

is_address(value, maps) == get_vmrange(value, maps).st # "none"

\* get_disasm(address): the line of "x/1i", "" when it cannot be read.  The
\* word 0 stands for bytes that decode to no instruction: "(bad)".
get_disasm(address) ==
    IF ~readable(address) THEN ""
    ELSE IF mem[address] = WordCell(0) THEN "(bad)"
    ELSE "insn"

\* A byte of the debuggee's memory: its value, whether the debugger can read
\* it and whether it can write it.
Byte(v, r, w) == [v |-> v, r |-> r, w |-> w]

\* The bytes a byte memory holds from an address on, up to and without the
\* first NUL or the first byte that cannot be read.
RECURSIVE chars_at(_, _)
chars_at(m, a) ==
    IF a \notin DOMAIN m \/ ~m[a].r \/ m[a].v = 0 THEN 0
    ELSE 1 + chars_at(m, a + 1)

\* A string ends at a NUL; one that runs into memory that cannot be read is
\* printed with the debugger's error after it.
ends_in_error(m, a) ==
    LET z == a + chars_at(m, a) IN z \notin DOMAIN m \/ ~m[z].r

\* The text of n letters A, the one printable byte the byte memory holds.
RECURSIVE letters(_)
letters(n) == IF n = 0 THEN "" ELSE "A" \o letters(n - 1)

\* execute("x/s %#x" % value, to_string=True).split(":", 1)[1].strip(): the
\* quoted string at the address.  Where memory is kept by words alone the
\* text stands for itself.
x_s(value) ==
    IF DOMAIN bytemem = {} THEN "x/s"
    ELSE "'" \o letters(chars_at(bytemem, value)) \o "'"
             \o (IF ends_in_error(bytemem, value) THEN "<error>" ELSE "")

\* examine_mem_value's examine_data: the word read at the address, the string
\* "x/s" prints there when the word's bytes are printable, None when the read
\* fails.
examine_data(value) ==
    IF ~readable(value) THEN NoneV
    ELSE IF mem[value].k = "str" THEN StrV(x_s(value))
    ELSE IntV(mem[value].n)

\* A tuple (value, type, next_value) of the classifier.
Triple(v, t, vn) == [v |-> v, t |-> t, vn |-> vn]
NoneTriple == Triple(NoneV, "None", NoneV)

\* The headers that hold the value, and the first of them in the order of
\* their ends ("sorted(headers.items(), key=lambda x: x[1][1])").
HeadersAt(headers, value) ==
    SelectSeq(headers, LAMBDA h : value >= h.start /\ value < h.end)

FirstByEnd(hlist) ==
    hlist[CHOOSE i \in DOMAIN hlist :
            \A j \in DOMAIN hlist :
                hlist[i].end < hlist[j].end \/ (hlist[i].end = hlist[j].end /\ i <= j)]

\* The code branch: m = re.search(...) is None for the empty line of a failed
\* disassembly, and m.group(1) raises.
code_triple(value, out) ==
    IF out = "" THEN Raised ELSE Ok(Triple(HexV(value), "code", StrV(out)))

rodata_triple(value) == Ok(Triple(HexV(value), "rodata", examine_data(value)))

\* The writable branch: nothing is classified when the read fails; heap when
\* the address lies in the first range named "[heap]".
writable_triple(value, out, heapmap) ==
    IF out = NoneV THEN Ok(NoneTriple)
    ELSE IF heapmap.st = "ok" /\ heapmap.val # <<>>
              /\ value >= heapmap.val[1].start /\ value < heapmap.val[1].end
    THEN Ok(Triple(HexV(value), "heap", out))
    ELSE Ok(Triple(HexV(value), "data", out))

\* The executable branch, with headers: code when the first header that holds
\* the value is a code header, else rodata.
in_headers_triple(value, at) ==
    IF at # <<>> /\ FirstByEnd(at).type = "code"
    THEN code_triple(value, get_disasm(value))
    ELSE rodata_triple(value)

\* The executable branch.
exec_triple(value, headers) ==
    IF headers # <<>> THEN in_headers_triple(value, HeadersAt(headers, value))
    ELSE IF get_disasm(value) = "(bad)" THEN rodata_triple(value)
    ELSE code_triple(value, get_disasm(value))

\* "if self.is_address(value, binmap): headers = self.elfheader()
\*  else: headers = self.elfheader_solib(mapname)"
headers_for(value) ==
    IF is_address(value, get_vmmap(SelBinary)) THEN elfheader
    ELSE elfheader_solib(get_vmrange(value, RetNone).val.mapname)

\* The read-only branch: "MemError" when the read fails.
readonly_triple(value, out) ==
    IF out # NoneV THEN Ok(Triple(HexV(value), "rodata", out))
    ELSE Ok(Triple(HexV(value), "rodata", StrV("MemError")))

\* examine_mem_value(value) for an int value.
examine_mem_value(value) ==
    IF ~is_address(value, RetNone) THEN Ok(Triple(HexV(value), "value", StrV("")))
    ELSE IF is_writable(value, RetNone)
    THEN writable_triple(value, examine_data(value), get_vmmap(SelHeap))
    ELSE IF is_executable(value, RetNone) THEN exec_triple(value, headers_for(value))
    ELSE readonly_triple(value, examine_data(value))

\* ------------------------------------------------------ ReferenceChainWalker
Sentinel == StrV("--> ...")

\* The loop left running after LoopFuel iterations.
NotEnded == [st |-> "running", val |-> <<>>]

\* The test against the chain's last entry alone.
PointsBack_last(vn_int, result) ==
    result # <<>> /\ to_int(result[Len(result)].v) = vn_int

\* "vn_int in [to_int(v) for (v, _, _) in result]"
PointsBack(vn_int, result) == \E i \in DOMAIN result : to_int(result[i].v) = vn_int

\* A depth bound, kept as two 16-bit halves so that 0xffffffff keeps its value.
Half == 2 ^ 16
Wide(n) == [hi |-> n \div Half, lo |-> n % Half]
DepthUnbounded == [hi |-> DepthUnboundedHi, lo |-> DepthUnboundedLo]

\* The test one entry early: "len(result) >= depth".
Exceeds_early(len, depth) ==
    \/ len \div Half > depth.hi
    \/ len \div Half = depth.hi /\ len % Half >= depth.lo

\* "len(result) > depth"
Exceeds(len, depth) ==
    \/ len \div Half > depth.hi
    \/ len \div Half = depth.hi /\ len % Half > depth.lo

\* The loop's body after "result += [(v, t, vn)]": stop at a value that
\* points to itself, that is no int, or that points back into the chain; else
\* classify the next value.
walk_next(result1, cur, vn_int) ==
    IF cur.v = cur.vn \/ to_int(cur.v) = vn_int THEN Ok(result1)        \* point to self
    ELSE IF vn_int = NoneV THEN Ok(result1)
    ELSE IF PointsBack(vn_int, result1) THEN Ok(result1)                \* point back
    ELSE [st |-> "next", val |-> examine_mem_value(vn_int.n)]

\* examine_mem_reference's while loop, from its test.  cur is (v, t, vn).
RECURSIVE walk_loop(_, _, _, _)

walk_step(result1, step, depth, fuel) ==
    IF step.st # "next" THEN step
    ELSE IF step.val.st = "raise" THEN Raised
    ELSE walk_loop(result1, step.val.val, depth, fuel - 1)

walk_loop(result, cur, depth, fuel) ==
    IF cur.vn = NoneV THEN Ok(result)
    ELSE IF fuel = 0 THEN NotEnded
    ELSE IF Exceeds(Len(result), depth)
    THEN Ok([result EXCEPT ![Len(result)].vn = Sentinel])
    ELSE walk_step(Append(result, cur), walk_next(Append(result, cur), cur, to_int(cur.vn)),
                   depth, fuel)

\* The loop from the first tuple classified.
walk_first(first, bound) ==
    IF first.st = "raise" THEN Raised ELSE walk_loop(<<>>, first.val, bound, LoopFuel)

\* examine_mem_reference from "(v, t, vn) = self.examine_mem_value(value)" on,
\* with the depth the loop compares against.
walk_from(value, bound) == walk_first(examine_mem_value(value), bound)

\* The test that leaves depth 0 as the bound 0: "if depth < 0".
depth_bound_negative(depth) == IF depth < 0 THEN DepthUnbounded ELSE Wide(depth)

\* "if depth <= 0: depth = 0xffffffff"
depth_bound(depth) == IF depth <= 0 THEN DepthUnbounded ELSE Wide(depth)

\* examine_mem_reference(value, depth)
examine_mem_reference(value, depth) == walk_from(value, depth_bound(depth))

\* =========================================================================
\* SpecMem: the classifier and the walker on a live local debuggee.
\* =========================================================================
\* A query of the engine: the operation, its value and depth arguments and its
\* selector.
Call(op, value, depth, sel) == [op |-> op, value |-> value, depth |-> depth, sel |-> sel]

NoCall == Call("none", 0, 0, SelNone)

\* The cache's keys (operation, argument), an entry (the value stored and the
\* invocation that stored it) and the empty cache.
CacheKey(q, a) == [q |-> q, a |-> a]
CacheKeys ==
    {CacheKey("getarch", 0)}
        \cup {CacheKey("backtrace_depth", sp) : sp \in Addr}
        \cup {CacheKey("examine_mem_value", value) : value \in Values}
NoEntry == [full |-> FALSE, val |-> 0, inv |-> 0]
Entry(val, inv) == [full |-> TRUE, val |-> val, inv |-> inv]
EmptyCache == [k \in CacheKeys |-> NoEntry]
NoServed == [key |-> CacheKey("none", 0), hit |-> FALSE, val |-> 0, inv |-> 0, fresh |-> 0]

\* getreg(): None, or the register's value as the set of its bits that are 1.
NoReg == [some |-> FALSE, bits |-> {}]
Reg(bits) == [some |-> TRUE, bits |-> bits]

\* The operand text of an instruction, by which regex of eval_target matches
\* it, with what gdb evaluates its expression to.
\*   "none": no operand            "expr": 0x... or a register or a symbol
\*   "ptr" : SIZE PTR [...] or SIZE PTR seg:0x...
Operand(form, val) == [form |-> form, val |-> val]
NoOperand == Operand("none", NoneV)

\* An instruction: opcode, operand and the value of the first operand
\* register of a compare-and-branch.
Insn(opcode, operand, rn) == [opcode |-> opcode, operand |-> operand, rn |-> rn]
NoInsn == Insn(<<>>, NoOperand, NoneV)

\* No readelf output read.
SecIdle == readelf = [ok |-> TRUE, lines |-> <<>>]

\* No flags, instruction or general register read.
IsaIdle ==
    /\ eflags = NoReg
    /\ cpsr = NoReg
    /\ inst = NoInsn
    /\ regs = <<>>
    /\ prev_insts = <<>>

\* No word written; memory is kept by words (mem), not by bytes.
NoWrite == [some |-> FALSE, at |-> 0, word |-> <<>>]
WriteIdle == bytemem = <<>> /\ written = NoWrite

\* The body of hook-stop as peda.py defines it when it is loaded:
\* peda.define_user_command("hook-stop", "peda context\n" "session autosave")
PedaHook == << <<"peda context">>, <<"session autosave">> >>

\* No command saved, PEDA enabled, "disable" not in effect.
NoCommands == [c \in {} |-> <<>>]
NotDisabled == [some |-> FALSE, body |-> <<>>]
HookIdle ==
    /\ hook_stop = PedaHook
    /\ SAVED_COMMANDS = NoCommands
    /\ enabled = TRUE
    /\ lists_empty = FALSE
    /\ at_disable = NotDisabled

\* Neither memory by bytes nor the hook is looked at.
ExtIdle == WriteIdle /\ HookIdle

\* The inputs of the static and ISA analyses, where no analysis is run.
AuxIdle == SecIdle /\ IsaIdle /\ ExtIdle

\* The dispatcher at rest: nothing cached, no command invoked.
MemoIdle ==
    /\ arch = "i386:x86-64"
    /\ stk = <<>>
    /\ cache = EmptyCache
    /\ invocation = 0
    /\ stage = "prompt"
    /\ served = NoServed

MapLine(start, end, perm, mapname) ==
    [ok |-> TRUE, start |-> start, end |-> end, perm |-> perm, mapname |-> mapname]

\* A line of /proc/<pid>/maps the pattern does not match.
BadMapLine == [ok |-> FALSE, start |-> 0, end |-> 0, perm |-> <<>>, mapname |-> <<>>]

Top == MaxAddr + 1

\* The /proc/<pid>/maps listings of SpecMem.  Address 0 is in none of them, and
\* the listing of the read-only library leaves the last address out.
MemProcMaps ==
    { [readable |-> FALSE, lines |-> <<>>],
      [readable |-> TRUE, lines |-> <<MapLine(1, Top, PermRW, HeapName)>>],
      [readable |-> TRUE, lines |-> <<MapLine(1, Top, PermRX, BinFile)>>],
      [readable |-> TRUE, lines |-> <<MapLine(1, Top, PermRX, LibFile)>>],
      [readable |-> TRUE, lines |-> <<MapLine(1, MaxAddr, PermRO, LibFile)>>],
      [readable |-> TRUE, lines |-> <<MapLine(1, Top, PermRWX, StackName)>>],
      [readable |-> TRUE,
       lines |-> <<MapLine(1, 2, PermRX, BinFile), BadMapLine,
                   MapLine(2, MaxAddr, PermRW, BinFile),
                   MapLine(MaxAddr, Top, PermRW, HeapName)>>] }

SectionLine(start, end, offset, hname, attr) ==
    [start |-> start, end |-> end, offset |-> offset, hname |-> hname, attr |-> attr]

\* "maintenance info sections" of the binary of SpecMem: code, read-only data
\* and data.
MemSections ==
    [ok |-> TRUE,
     lines |-> <<SectionLine(1, 2, 0, ".text", {"ALLOC", "LOAD", "READONLY", "CODE"}),
                 SectionLine(2, MaxAddr, 1, ".rodata", {"ALLOC", "LOAD", "READONLY", "DATA"}),
                 SectionLine(MaxAddr, Top, 2, ".data", {"ALLOC", "LOAD", "DATA"})>>]

ExeLine(objfile) ==
    [kind |-> "exe", main |-> FALSE, start |-> 0, stop |-> 0, section |-> "",
     objfile |-> objfile, secoff |-> 0]

AddrLine(start, stop, section, main, objfile, secoff) ==
    [kind |-> "addr", main |-> main, start |-> start, stop |-> stop, section |-> section,
     objfile |-> objfile, secoff |-> secoff]

BadLine ==
    [kind |-> "bad", main |-> FALSE, start |-> 0, stop |-> 0, section |-> "",
     objfile |-> <<>>, secoff |-> 0]

OtherLine ==
    [kind |-> "other", main |-> FALSE, start |-> 0, stop |-> 0, section |-> "",
     objfile |-> <<>>, secoff |-> 0]

\* "info files" of SpecMem: the binary's sections and those of one library.
MemInfoFiles ==
    [ok |-> TRUE,
     lines |-> <<OtherLine, ExeLine(BinFile), OtherLine,
                 AddrLine(1, 2, ".text", TRUE, NoFile, 0),
                 AddrLine(2, Top, ".rodata", TRUE, NoFile, 1),
                 AddrLine(1, 2, ".text", FALSE, LibFile, 0),
                 AddrLine(2, Top, ".data", FALSE, LibFile, 1)>>]

\* Memory: address 0 cannot be read; every other address holds any cell.
Memories == {m \in [Addr -> Cells] : m[0] = NoMem}

Depths == (-1 .. MaxDepth) \cup {DefaultDepth}

InitMem ==
    /\ pid \in {0, 1}
    /\ execfile = BinFile
    /\ target = "local"
    /\ procmaps \in MemProcMaps
    /\ infofiles = MemInfoFiles
    /\ sections = MemSections
    /\ regsp = MaxAddr
    /\ mem \in Memories
    /\ call = NoCall
    /\ ret = RetNone
    /\ MemoIdle
    /\ AuxIdle

\* The debugger is at its prompt: no command of the engine is running.
AtPrompt == call = NoCall

\* The command's result has been shown; the debugger is back at its prompt.
Return ==
    /\ ~AtPrompt
    /\ call' = NoCall
    /\ ret' = RetNone
    /\ UNCHANGED <<env, memo>>
    /\ UNCHANGED aux

\* A command classifies a value.
Classify(value) ==
    /\ AtPrompt
    /\ call' = Call("examine_mem_value", value, 0, SelNone)
    /\ ret' = examine_mem_value(value)
    /\ UNCHANGED <<env, memo>>
    /\ UNCHANGED aux

\* A command walks the references from a value.
Walk(value, depth) ==
    /\ AtPrompt
    /\ call' = Call("examine_mem_reference", value, depth, SelNone)
    /\ ret' = examine_mem_reference(value, depth)
    /\ UNCHANGED <<env, memo>>
    /\ UNCHANGED aux

NextMem ==
    \/ \E value \in Values : Classify(value)
    \/ \E value \in Values, depth \in Depths : Walk(value, depth)
    \/ Return

SpecMem == InitMem /\ [][NextMem]_vars

\* ------------------------------------------------------- properties of SpecMem
\* The tuple a plain immediate is classified as.
ValueTriple(value) == Ok(Triple(HexV(value), "value", StrV("")))

\* The snapshot examine_mem_value works on, as a list.
Snapshot == list_of(get_vmmap(SelNone))

InSomeRange(value, list) ==
    \E i \in DOMAIN list : list[i].start <= value /\ value < list[i].end

\* examine_mem_value has been called with a value no range of the snapshot holds.
C1_Unmapped ==
    /\ call.op = "examine_mem_value"
    /\ ~InSomeRange(call.value, Snapshot)

\* C1, as stated: every value that no range of the snapshot holds, the
\* snapshot being empty included, is classified as kind 'value' with an empty
\* payload.
C1_UnmappedIsValue == C1_Unmapped => ret = ValueTriple(call.value)

\* C1, amended: a value that no range of the snapshot holds is classified as
\* kind 'value' with an empty payload when the snapshot has a range, or when
\* it is empty and the byte at the value cannot be read.
C1_UnmappedIsValueUnlessProbed ==
    (C1_Unmapped /\ (Snapshot # <<>> \/ ~readable(call.value)))
        => ret = ValueTriple(call.value)

\* A readable value outside every range of a non-empty snapshot has been
\* classified as a plain value.
C1_Witness ==
    /\ C1_Unmapped
    /\ Snapshot # <<>>
    /\ readable(call.value)
    /\ ret = ValueTriple(call.value)

\* The address reached from a by following n words, -1 when a word on the way
\* is no readable machine word.
RECURSIVE Follow(_, _)
Follow(a, n) ==
    IF n = 0 THEN a
    ELSE IF a \in Addr /\ mem[a].k = "word" THEN Follow(mem[a].n, n - 1)
    ELSE -1

\* a0 lies on a cycle of pointers, and the number N of addresses of that cycle.
OnCycle(a0) == \E n \in 1 .. Cardinality(Addr) : Follow(a0, n) = a0

CycleLen(a0) ==
    CHOOSE n \in 1 .. Cardinality(Addr) :
        /\ Follow(a0, n) = a0
        /\ \A m \in 1 .. (n - 1) : Follow(a0, m) # a0

\* Every address of the cycle through a0 is in mapped memory.
CycleMapped(a0) ==
    \A m \in 0 .. (CycleLen(a0) - 1) : is_address(Follow(a0, m), RetNone)

\* examine_mem_reference has been called on an address of a cycle in mapped memory.
C4_OnCycle ==
    /\ call.op = "examine_mem_reference"
    /\ OnCycle(call.value)
    /\ CycleMapped(call.value)

\* C4: on a cycle of N addresses a0 -> a1 -> ... -> a0 in mapped memory,
\* examine_mem_reference(a0) ends and returns a chain of at most N entries;
\* for N = 1 the chain has exactly one entry.
C4_CycleChainAtMostN ==
    C4_OnCycle =>
        /\ ret.st = "ok"
        /\ Len(ret.val) <= CycleLen(call.value)
        /\ (CycleLen(call.value) = 1 => Len(ret.val) = 1)

\* The default depth has walked a cycle of three addresses and returned all
\* three of them.
C4_Witness ==
    /\ C4_OnCycle
    /\ call.depth = DefaultDepth
    /\ CycleLen(call.value) = 3
    /\ ret.st = "ok"
    /\ Len(ret.val) = 3

\* The chain the walk returns when nothing bounds it.
FullChain(value) == walk_from(value, DepthUnbounded)

\* A chain cut after n entries: the first n - 1 entries of the full chain and
\* its n-th entry with the sentinel as payload.
Truncated(full, n) ==
    [i \in 1 .. n |-> IF i < n THEN full[i] ELSE [full[n] EXCEPT !.vn = Sentinel]]

\* examine_mem_reference has returned a chain for a depth >= 1.
C5_Bounded ==
    /\ call.op = "examine_mem_reference"
    /\ call.depth >= 1
    /\ ret.st = "ok"

\* The chain returned against the full chain: the full chain when that has at
\* most depth + 1 entries, else its first depth + 1 entries with the sentinel
\* as the payload of the last.
C5_ChainOf(full, depth) ==
    IF Len(full) > depth + 1 THEN Truncated(full, depth + 1) ELSE full

C6_Unbounded ==
    /\ call.op = "examine_mem_reference"
    /\ call.depth <= 0

HasSentinel(chain) == \E i \in DOMAIN chain : chain[i].vn = Sentinel

\* C6: with a depth of 0 or less the walk runs against the bound 0xffffffff
\* and ends, whatever the pointers: it returns the chain of the walk bounded
\* by 0xffffffff, which has no entry twice, so at most one entry per value,
\* and no truncation sentinel.
C6_UnboundedWalkEnds ==
    C6_Unbounded =>
        /\ ret # NotEnded
        /\ ret = walk_from(call.value, DepthUnbounded)
        /\ (ret.st = "ok" =>
               /\ Len(ret.val) <= Cardinality(Values)
               /\ ~HasSentinel(ret.val)
               /\ \A i, j \in DOMAIN ret.val : ret.val[i].v = ret.val[j].v => i = j)

\* A walk of depth 0 has ended on a cycle entered after a prefix: three
\* entries, the last pointing back at the second.
C6_Witness ==
    /\ C6_Unbounded
    /\ call.depth = 0
    /\ ret.st = "ok"
    /\ Len(ret.val) = 3
    /\ to_int(ret.val[3].vn) = to_int(ret.val[2].v)

\* =========================================================================
\* SpecVm: get_vmmap over its sources: the live listing, the files/sections
\* approximation of a remote target, the offline ranges of the exec file.
\* =========================================================================
VmProcMaps ==
    { [readable |-> FALSE, lines |-> <<>>],
      [readable |-> TRUE,
       lines |-> <<MapLine(1, 2, PermRX, BinFile), MapLine(2, Top, PermRW, HeapName)>>],
      [readable |-> TRUE,
       lines |-> <<MapLine(1, 2, PermRX, BinFile), BadMapLine,
                   MapLine(2, MaxAddr, PermRW, LibFile),
                   MapLine(MaxAddr, Top, PermRW, <<>>)>>] }

\* "info files": the command failing, a listing of three lines, a listing with
\* no address line that parses, and the listing of the binary and a library.
VmInfoFiles ==
    { [ok |-> FALSE, lines |-> <<>>],
      [ok |-> TRUE, lines |-> <<OtherLine, ExeLine(BinFile), OtherLine>>],
      [ok |-> TRUE, lines |-> <<OtherLine, ExeLine(BinFile), OtherLine, BadLine>>],
      MemInfoFiles }

\* "maintenance info sections": nothing; code, read-only data and data one
\* after the other; the layout of a linked ELF file, with read-only sections
\* on both sides of the code; a file without a data section.
VmSections ==
    { [ok |-> FALSE, lines |-> <<>>],
      MemSections,
      [ok |-> TRUE,
       lines |-> <<SectionLine(1, 2, 1, ".interp", {"ALLOC", "LOAD", "READONLY", "DATA"}),
                   SectionLine(2, 3, 2, ".text", {"ALLOC", "LOAD", "READONLY", "CODE"}),
                   SectionLine(3, 4, 3, ".rodata", {"ALLOC", "LOAD", "READONLY", "DATA"}),
                   SectionLine(4, 5, 4, ".data", {"ALLOC", "LOAD", "DATA"})>>],
      [ok |-> TRUE,
       lines |-> <<SectionLine(1, 2, 0, ".text", {"ALLOC", "LOAD", "READONLY", "CODE"}),
                   SectionLine(2, 3, 1, ".rodata", {"ALLOC", "LOAD", "READONLY", "DATA"})>>] }

\* The selectors get_vmmap is called with.
Selectors ==
    {SelNone, SelAll, SelBinary, SelHeap, SelName(LibFile), SelName(StackName)}
        \cup {SelAddr(n) : n \in 1 .. 2}

\* The memory of SpecVm: every address but 0 holds the word 1.
VmMem == [a \in Addr |-> IF a = 0 THEN NoMem ELSE WordCell(1)]

InitVm ==
    /\ pid \in {0, 1}
    /\ execfile \in {NoFile, BinFile}
    /\ target \in {"local", "qemu", "remote"}
    /\ procmaps \in VmProcMaps
    /\ infofiles \in VmInfoFiles
    /\ sections \in VmSections
    /\ regsp \in {1, MaxAddr}
    /\ mem = VmMem
    /\ call = NoCall
    /\ ret = RetNone
    /\ MemoIdle
    /\ AuxIdle

\* A command asks for the memory ranges.
Vmmap(name) ==
    /\ AtPrompt
    /\ call' = Call("get_vmmap", 0, 0, name)
    /\ ret' = get_vmmap(name)
    /\ UNCHANGED <<env, memo>>
    /\ UNCHANGED aux

\* The user starts the program ("run") or it ends.
Run ==
    /\ AtPrompt
    /\ pid = 0
    /\ execfile # NoFile
    /\ pid' = 1
    /\ UNCHANGED <<execfile, target, procmaps, infofiles, sections, regsp, mem, call, ret, memo>>
    /\ UNCHANGED aux

Exit ==
    /\ AtPrompt
    /\ pid # 0
    /\ pid' = 0
    /\ UNCHANGED <<execfile, target, procmaps, infofiles, sections, regsp, mem, call, ret, memo>>
    /\ UNCHANGED aux

NextVm ==
    \/ \E name \in Selectors : Vmmap(name)
    \/ Run
    \/ Exit
    \/ Return

SpecVm == InitVm /\ [][NextVm]_vars

\* -------------------------------------------------------- properties of SpecVm
\* C7: get_vmmap(selector) always returns a list: the empty list when its
\* source is missing or does not parse, never None and never an exception.
C7_AlwaysList == call.op = "get_vmmap" => ret.st = "ok"

\* The ranges the source in use produced, before any selection.
SourceRanges ==
    IF getpid = 0 THEN list_of(offline_or_empty(get_offline_maps))
    ELSE maps_or_empty(get_allmaps_linux)

Holds(m, address) == m.start <= address /\ address < m.end

\* C8: get_vmmap(selector) honours the selector whichever source produced the
\* ranges: an address selects at most one range, which holds it; a name
\* selects ranges whose region name contains it; no selector or 'all' selects
\* every range.
C8_HonoursSelector ==
    (call.op = "get_vmmap" /\ ret.st = "ok") =>
        CASE call.sel.k = "addr" ->
                 /\ Len(ret.val) <= 1
                 /\ \A i \in DOMAIN ret.val : Holds(ret.val[i], call.sel.n)
          [] call.sel.k \in {"none", "all"} -> ret.val = SourceRanges
          [] OTHER ->
                 \A i \in DOMAIN ret.val :
                     Contains(ret.val[i].mapname, SelectorName(call.sel))

Disjoint(m1, m2) == m1.end <= m2.start \/ m2.end <= m1.start

\* C9: every list get_vmmap returns keeps the invariant of memory ranges: each
\* range has start < end and no two ranges of the list overlap.
C9_RangesDisjoint ==
    (call.op = "get_vmmap" /\ ret.st = "ok") =>
        /\ \A i \in DOMAIN ret.val : ret.val[i].start < ret.val[i].end
        /\ \A i, j \in DOMAIN ret.val : i # j => Disjoint(ret.val[i], ret.val[j])

\* =========================================================================
\* SpecElf: elfheader and elfheader_solib on a binary and a library, each
\* linked at a base L and loaded at a base B >= L.
\* =========================================================================
\* An image has two sections of one address each: .text at its base, .data after it.
ImageSize == 2

ElfSections(L) ==
    [ok |-> TRUE,
     lines |-> <<SectionLine(L, L + 1, 0, ".text", {"ALLOC", "LOAD", "READONLY", "CODE"}),
                 SectionLine(L + 1, L + 2, 1, ".data", {"ALLOC", "LOAD", "DATA"})>>]

ElfInfoFiles(L) ==
    [ok |-> TRUE,
     lines |-> <<OtherLine, ExeLine(BinFile), OtherLine,
                 AddrLine(L, L + 1, ".text", FALSE, LibFile, 0),
                 AddrLine(L + 1, L + 2, ".data", FALSE, LibFile, 1)>>]

\* /proc/<pid>/maps with the binary loaded at Bb and the library at Bl.
ElfProcMaps(Bb, Bl) ==
    [readable |-> TRUE,
     lines |-> IF Bb < Bl
               THEN <<MapLine(Bb, Bb + ImageSize, PermRX, BinFile),
                      MapLine(Bl, Bl + ImageSize, PermRX, LibFile)>>
               ELSE <<MapLine(Bl, Bl + ImageSize, PermRX, LibFile),
                      MapLine(Bb, Bb + ImageSize, PermRX, BinFile)>>]

\* Where the loader puts an image linked at L: at L itself, or above every
\* link-time address of the image.
LoadBases(L) == {L} \cup {B \in 0 .. MaxBase : B > L + ImageSize}

\* The binary loaded at Bb and the library at Bl do not overlap.
Apart(Bb, Bl) == Bb + ImageSize <= Bl \/ Bl + ImageSize <= Bb

InitElf ==
    /\ pid = 1
    /\ execfile = BinFile
    /\ target = "local"
    /\ \E Lb \in 0 .. MaxLink, Ll \in 0 .. MaxLink :
           /\ sections = ElfSections(Lb)
           /\ infofiles = ElfInfoFiles(Ll)
           /\ \E Bb \in LoadBases(Lb), Bl \in LoadBases(Ll) :
                  Apart(Bb, Bl) /\ procmaps = ElfProcMaps(Bb, Bl)
    /\ regsp = MaxAddr
    /\ mem = VmMem
    /\ call = NoCall
    /\ ret = RetNone
    /\ MemoIdle
    /\ AuxIdle

\* A command asks for the headers of the binary.
Elfheader ==
    /\ AtPrompt
    /\ call' = Call("elfheader", 0, 0, SelNone)
    /\ ret' = Ok(elfheader)
    /\ UNCHANGED <<env, memo>>
    /\ UNCHANGED aux

\* A command asks for the headers of a library.
ElfheaderSolib(solib) ==
    /\ AtPrompt
    /\ call' = Call("elfheader_solib", 0, 0, SelName(solib))
    /\ ret' = Ok(elfheader_solib(solib))
    /\ UNCHANGED <<env, memo>>
    /\ UNCHANGED aux

NextElf ==
    \/ Elfheader
    \/ ElfheaderSolib(LibFile)
    \/ Return

SpecElf == InitElf /\ [][NextElf]_vars

\* ------------------------------------------------------- properties of SpecElf
\* The link-time base of the binary and of the library: the address of the
\* first section less its offset in the file.
LinkBaseBinary == sections.lines[1].start - sections.lines[1].offset

LibLines == SelectSeq(infofiles.lines, LAMBDA l : l.kind = "addr" /\ l.objfile = LibFile)

LinkBaseLibrary == LibLines[1].start - LibLines[1].secoff

\* The runtime base of an image: the start of its first range.
RuntimeBase(name) == first_start(live_vmmap(name))

\* A header is a parsed section moved up by delta, start and end alike.
MovedBy(h, lstart, lend, delta) ==
    /\ h.start = lstart + delta
    /\ h.end = lend + delta
    /\ h.start - lstart = h.end - lend
    /\ h.start >= lstart
    /\ h.start <= h.end

\* C10: for an image linked at L and loaded at B >= L, every section that
\* elfheader() and elfheader_solib(solib) return has start = link start +
\* (B - L) and end = link end + (B - L): both ends move by the same amount and
\* none moves below its parsed value.
C10_SectionsRebased ==
    /\ (call.op = "elfheader" /\ RuntimeBase(SelBinary) >= LinkBaseBinary) =>
           \A i \in DOMAIN ret.val :
               \E j \in DOMAIN sections.lines :
                   /\ sections.lines[j].hname = ret.val[i].hname
                   /\ MovedBy(ret.val[i], sections.lines[j].start, sections.lines[j].end,
                              RuntimeBase(SelBinary) - LinkBaseBinary)
    /\ (call.op = "elfheader_solib" /\ RuntimeBase(call.sel) >= LinkBaseLibrary) =>
           \A i \in DOMAIN ret.val :
               \E j \in DOMAIN LibLines :
                   /\ LibLines[j].section = ret.val[i].hname
                   /\ MovedBy(ret.val[i], LibLines[j].start, LibLines[j].stop,
                              RuntimeBase(call.sel) - LinkBaseLibrary)

\* =========================================================================
\* SpecCache: the memoization cache across "peda <cmd>" invocations and inside
\* one command that steps the debuggee.
\* =========================================================================
\* getarch(): the bits of the architecture "show architecture" names.
getarch == IF arch \in {"i386:x86-64", "aarch64"} THEN 64 ELSE 32

\* backtrace_depth(sp): the number of "#" in the output of "backtrace", one
\* per frame: the outermost frame and one per return address on the stack.
backtrace_depth == 1 + Cardinality({i \in DOMAIN stk : stk[i] = "ret"})

\* The stack pointer for a stack of n slots.
SpOf(n) == MaxAddr - n

\* utils.memoized: a call is answered from the cache when the key (operation,
\* arguments) has an entry; else the function is evaluated and its value
\* stored.  c: the cache, k: the invocation being handled.
memoized(c, key, fresh, k) ==
    IF c[key].full
    THEN [key |-> key, hit |-> TRUE, val |-> c[key].val, inv |-> c[key].inv, fresh |-> fresh]
    ELSE [key |-> key, hit |-> FALSE, val |-> fresh, inv |-> k, fresh |-> fresh]

memoized_store(c, key, fresh, k) ==
    IF c[key].full THEN c ELSE [c EXCEPT ![key] = Entry(fresh, k)]

\* utils.reset_cache: every memoized function's cache is emptied.
reset_cache == EmptyCache

\* pedacmd.commands: the commands SpecCache invokes; any other name is undefined.
Commands == {"telescope", "stepuntil"}

\* pedaGDBCommand.invoke, to the end of "arg = peda.string_to_argv(arg_string)".
\* evals: an argument starts with "+", holds "$" or is a math expression, so
\* string_to_argv calls parse_and_eval, whose first statement is getarch().
invoke(cmd, evals) ==
    /\ stage = "prompt"
    /\ invocation < MaxInvocations
    /\ invocation' = invocation + 1
    /\ call' = Call(cmd, 0, 0, SelNone)
    /\ ret' = RetNone
    /\ served' = IF evals THEN memoized(cache, CacheKey("getarch", 0), getarch, invocation + 1)
                  ELSE NoServed
    /\ cache' = IF evals
                 THEN memoized_store(cache, CacheKey("getarch", 0), getarch, invocation + 1)
                 ELSE cache
    /\ stage' = "parsed"
    /\ UNCHANGED <<env, arch, stk>>
    /\ UNCHANGED aux

\* invoke, from "cmd = arg[0]": a known command has the cache reset and its
\* function called; any other is reported as undefined.
dispatch ==
    /\ stage = "parsed"
    /\ IF call.op \in Commands
       THEN /\ cache' = reset_cache
            /\ stage' = "body"
            /\ UNCHANGED call
       ELSE /\ stage' = "prompt"
            /\ call' = NoCall
            /\ UNCHANGED cache
    /\ served' = NoServed
    /\ UNCHANGED <<env, ret, arch, stk, invocation>>
    /\ UNCHANGED aux

\* PEDACmd.telescope: "step = peda.intsize()", which asks getarch().
telescope ==
    /\ stage = "body"
    /\ call.op = "telescope"
    /\ served' = memoized(cache, CacheKey("getarch", 0), getarch, invocation)
    /\ cache' = memoized_store(cache, CacheKey("getarch", 0), getarch, invocation)
    /\ stage' = "done"
    /\ UNCHANGED <<env, call, ret, arch, stk, invocation>>
    /\ UNCHANGED aux

\* PEDA.stepuntil before its loop:
\* "current_depth = self.backtrace_depth(self.getreg("sp"))".
stepuntil_enter ==
    /\ stage = "body"
    /\ call.op = "stepuntil"
    /\ served' = memoized(cache, CacheKey("backtrace_depth", getreg_sp), backtrace_depth,
                          invocation)
    /\ cache' = memoized_store(cache, CacheKey("backtrace_depth", getreg_sp), backtrace_depth,
                               invocation)
    /\ stage' = "loop"
    /\ UNCHANGED <<env, call, ret, arch, stk, invocation>>
    /\ UNCHANGED aux

\* The instruction at pc can execute on the stack s.
CanExecute(insn, s) ==
    CASE insn \in {"call", "push"} -> Len(s) < MaxAddr
      [] insn = "pop" -> s # <<>> /\ s[Len(s)] = "data"
      [] insn = "ret" -> s # <<>> /\ s[Len(s)] = "ret"
      [] OTHER -> TRUE

\* "stepi": the stack after the instruction at pc.
stepi(insn, s) ==
    CASE insn = "call" -> Append(s, "ret")
      [] insn = "push" -> Append(s, "data")
      [] insn \in {"pop", "ret"} -> SubSeq(s, 1, Len(s) - 1)
      [] OTHER -> s

\* "finish": the stack once the selected frame has returned; the outermost
\* frame has nothing to return to.
RECURSIVE finish(_)
finish(s) ==
    IF \A i \in DOMAIN s : s[i] # "ret" THEN s
    ELSE IF s[Len(s)] = "ret" THEN SubSeq(s, 1, Len(s) - 1)
    ELSE finish(SubSeq(s, 1, Len(s) - 1))

Instructions == {"call", "push", "pop", "ret", "nop"}

\* One iteration of PEDA.stepuntil's loop: the depth is asked for at the
\* current sp; the loop is left when the instruction at pc is the one looked
\* for (found); else the debuggee is stepped, and finished out of the frame
\* when the instruction lies outside the target maps (outside).
stepuntil_iter(insn, found, outside) ==
    /\ stage = "loop"
    /\ CanExecute(insn, stk)
    /\ served' = memoized(cache, CacheKey("backtrace_depth", getreg_sp), backtrace_depth,
                          invocation)
    /\ cache' = memoized_store(cache, CacheKey("backtrace_depth", getreg_sp), backtrace_depth,
                               invocation)
    /\ IF found
       THEN /\ stage' = "done"
            /\ UNCHANGED <<stk, regsp>>
       ELSE /\ stage' = "loop"
            /\ stk' = IF outside THEN finish(stepi(insn, stk)) ELSE stepi(insn, stk)
            /\ regsp' = SpOf(Len(stk'))
    /\ UNCHANGED <<pid, execfile, target, procmaps, infofiles, sections, mem, call, ret,
                   arch, invocation>>
    /\ UNCHANGED aux

\* The command's function has returned to invoke, and invoke to the prompt.
command_ends ==
    /\ stage = "done"
    /\ stage' = "prompt"
    /\ call' = NoCall
    /\ served' = NoServed
    /\ UNCHANGED <<env, ret, arch, stk, cache, invocation>>
    /\ UNCHANGED aux

Archs == {"i386:x86-64", "i386"}

\* At the prompt the user loads another file or sets another architecture.
UserSetsArch(a) ==
    /\ stage = "prompt"
    /\ a # arch
    /\ arch' = a
    /\ UNCHANGED <<env, call, ret, stk, cache, invocation, stage, served>>
    /\ UNCHANGED aux

\* At the prompt the user steps the debuggee with the debugger's own stepi.
UserStepi(insn) ==
    /\ stage = "prompt"
    /\ CanExecute(insn, stk)
    /\ insn # "nop"
    /\ stk' = stepi(insn, stk)
    /\ regsp' = SpOf(Len(stk'))
    /\ UNCHANGED <<pid, execfile, target, procmaps, infofiles, sections, mem, call, ret,
                   arch, cache, invocation, stage, served>>
    /\ UNCHANGED aux

InitCache ==
    /\ pid = 1
    /\ execfile = BinFile
    /\ target = "local"
    /\ procmaps \in VmProcMaps
    /\ infofiles = MemInfoFiles
    /\ sections = MemSections
    /\ regsp = SpOf(0)
    /\ mem = VmMem
    /\ call = NoCall
    /\ ret = RetNone
    /\ arch \in Archs
    /\ stk = <<>>
    /\ cache = EmptyCache
    /\ invocation = 0
    /\ stage = "prompt"
    /\ served = NoServed
    /\ AuxIdle

InvokeSteps ==
    \/ \E cmd \in Commands \cup {"nosuch"}, evals \in BOOLEAN : invoke(cmd, evals)
    \/ dispatch
    \/ telescope
    \/ stepuntil_enter
    \/ \E insn \in Instructions, found \in BOOLEAN, outside \in BOOLEAN :
           stepuntil_iter(insn, found, outside)
    \/ command_ends

NextCache ==
    \/ InvokeSteps
    \/ \E a \in Archs : UserSetsArch(a)
    \/ \E insn \in Instructions : UserStepi(insn)

SpecCache == InitCache /\ [][NextCache]_vars

\* SpecStep: SpecCache with the architecture left as it is, so that what
\* getarch() returns never changes.
NextStep ==
    \/ InvokeSteps
    \/ \E insn \in Instructions : UserStepi(insn)

SpecStep == InitCache /\ [][NextStep]_vars

\* ----------------------------------------------------- properties of SpecCache
\* C2: in every "peda <cmd>" invocation the cache is cleared before any
\* memoized query of the invocation, string_to_argv's included: a query
\* answered from the cache while invocation k is handled is answered from an
\* entry stored during invocation k, never during an earlier one.
C2_NoEntryOfEarlierInvocation == served.hit => served.inv = invocation

\* C3: a memoized query never returns a stale result: a result served from the
\* cache equals what a fresh evaluation on the debuggee's current state
\* returns, also when the debuggee is stepped inside one command between two
\* calls of the query.
C3_NeverStale == served.hit => served.val = served.fresh

\* ---------------------------------------------------------------------
\* Checksec: the protection flags read off readelf's output
\* ---------------------------------------------------------------------

MaxLines == 3

\* A line of readelf's output is the set of searched substrings it holds.
ReadelfLines ==
    { {"GNU_RELRO"}, {"BIND_NOW"}, {"GNU_RELRO", "BIND_NOW"},
      {"GNU_STACK", "RWE"}, {"GNU_STACK"}, {"__stack_chk_fail"},
      {"Type:", "DYN ("}, {"(DEBUG)"}, {"_chk@"}, {} }

\* x | y on small non-negative integers
RECURSIVE BitOr(_, _)
BitOr(x, y) ==
    IF x = 0 THEN y
    ELSE IF y = 0 THEN x
    ELSE (IF x % 2 = 1 \/ y % 2 = 1 THEN 1 ELSE 0) + 2 * BitOr(x \div 2, y \div 2)

checksec_result ==
    [RELRO |-> 0, CANARY |-> 0, NX |-> 1, PIE |-> 0, FORTIFY |-> 0]

\* The body of the loop over the lines, one "if" after the other.
checksec_line(r, line) ==
    LET r1 == IF "GNU_RELRO" \in line
              THEN [r EXCEPT !.RELRO = BitOr(@, 2)] ELSE r
        r2 == IF "BIND_NOW" \in line
              THEN [r1 EXCEPT !.RELRO = BitOr(@, 1)] ELSE r1
        r3 == IF "__stack_chk_fail" \in line
              THEN [r2 EXCEPT !.CANARY = 1] ELSE r2
        r4 == IF "GNU_STACK" \in line /\ "RWE" \in line
              THEN [r3 EXCEPT !.NX = 0] ELSE r3
        r5 == IF "Type:" \in line /\ "DYN (" \in line
              THEN [r4 EXCEPT !.PIE = 4] ELSE r4
        r6 == IF "(DEBUG)" \in line /\ r5.PIE = 4
              THEN [r5 EXCEPT !.PIE = 1] ELSE r5
    IN  IF "_chk@" \in line THEN [r6 EXCEPT !.FORTIFY = 1] ELSE r6

RECURSIVE checksec_loop(_, _)
checksec_loop(r, lines) ==
    IF lines = <<>> THEN r
    ELSE checksec_loop(checksec_line(r, Head(lines)), Tail(lines))

\* BIND_NOW without GNU_RELRO is kept as it was accumulated.
checksec_downgrade_kept(r) == r

\* BIND_NOW + NO GNU_RELRO = NO PROTECTION
checksec_downgrade(r) ==
    IF r.RELRO = 1 THEN [r EXCEPT !.RELRO = 0] ELSE r

checksec ==
    IF getfile = NoFile THEN RetNone
    ELSE IF ~readelf.ok THEN RetNone
    ELSE Ok(checksec_downgrade(checksec_loop(checksec_result, readelf.lines)))

RECURSIVE SeqsUpTo(_, _)
SeqsUpTo(S, n) ==
    IF n = 0 THEN {<<>>}
    ELSE LET shorter == SeqsUpTo(S, n - 1)
         IN  shorter \cup {Append(q, x) : q \in shorter, x \in S}

InitSec ==
    /\ pid = 0
    /\ execfile \in {NoFile, BinFile}
    /\ target = "local"
    /\ procmaps = <<>>
    /\ infofiles = <<>>
    /\ sections = <<>>
    /\ regsp = 0
    /\ mem = [a \in Addr |-> NoMem]
    /\ call = NoCall
    /\ ret = RetNone
    /\ MemoIdle
    /\ IsaIdle
    /\ ExtIdle
    /\ readelf \in [ok : BOOLEAN, lines : SeqsUpTo(ReadelfLines, MaxLines)]

Checksec ==
    /\ call = NoCall
    /\ call' = Call("checksec", 0, 0, SelNone)
    /\ ret' = checksec
    /\ UNCHANGED <<env, memo, aux>>

NextSec == Checksec \/ Return

SpecSec == InitSec /\ [][NextSec]_vars

HasLine(marker) ==
    \E i \in 1..Len(readelf.lines) : marker \in readelf.lines[i]

C11_Answered == call.op = "checksec" /\ ret.st = "ok"

C11_Expected ==
    IF ~HasLine("GNU_RELRO") THEN 0
    ELSE IF ~HasLine("BIND_NOW") THEN 2
    ELSE 3

\* C11: whatever the order of readelf's lines, RELRO is 0 when GNU_RELRO is
\* absent (with or without BIND_NOW), 2 when GNU_RELRO is present without
\* BIND_NOW, 3 when both are present, and never 1.
C11_RelroMapping ==
    C11_Answered =>
        /\ ret.val.RELRO = C11_Expected
        /\ ret.val.RELRO # 1

\* BIND_NOW is listed, GNU_RELRO is not, and checksec answered 0.
C11_Witness ==
    /\ C11_Answered
    /\ HasLine("BIND_NOW")
    /\ ~HasLine("GNU_RELRO")
    /\ ret.val.RELRO = 0

\* ---------------------------------------------------------------------
\* ControlFlowEvaluator: is the jump at pc taken, and where to
\* ---------------------------------------------------------------------

\* bool(reg & MASK) with every mask taken for all ones
flag_bit_any(reg, mask) == reg.bits # {}

\* bool(reg & MASK): the mask is the set of its bits
flag_bit(reg, mask) == reg.bits \cap mask # {}

\* None where a dictionary of flags is expected
NoFlags == [k \in {} |-> FALSE]

\* get_eflags(): None when eflags is None or 0, else the named flags.
get_eflags ==
    LET EFLAGS(k) == CASE k = "CF" -> {0} [] k = "PF" -> {2} [] k = "AF" -> {4}
                       [] k = "ZF" -> {6} [] k = "SF" -> {7} [] k = "TF" -> {8}
                       [] k = "IF" -> {9} [] k = "DF" -> {10} [] k = "OF" -> {11}
    IN  IF ~eflags.some \/ eflags.bits = {} THEN NoFlags
        ELSE [k \in {"CF", "PF", "AF", "ZF", "SF", "TF", "IF", "DF", "OF"} |->
                 flag_bit(eflags, EFLAGS(k))]

\* get_cpsr(): None when cpsr is None, else the named flags.
get_cpsr ==
    LET CPSR == [N |-> {31}, Z |-> {30}, C |-> {29}, V |-> {28}, Q |-> {27},
                 J |-> {24}, GE |-> {16, 17, 18}, E |-> {9}, A |-> {8},
                 I |-> {7}, F |-> {6}, T |-> {5}]
    IN  IF ~cpsr.some THEN NoFlags
        ELSE [k \in DOMAIN CPSR |-> flag_bit(cpsr, CPSR[k])]

get_aarch64_cpsr ==
    LET CPSR64 == [N |-> {31}, Z |-> {30}, C |-> {29}, V |-> {28}, D |-> {9},
                   A |-> {8}, I |-> {7}, F |-> {6}]
    IN  IF ~cpsr.some THEN NoFlags
        ELSE [k \in DOMAIN CPSR64 |-> flag_bit(cpsr, CPSR64[k])]

\* getreg(register): None when "info registers" does not list it
getreg(register) ==
    IF register \in DOMAIN regs THEN IntV(regs[register]) ELSE NoneV

\* read_int(address): the word at the address, None when it cannot be read
read_int(address) ==
    IF address \in Addr /\ mem[address].k = "word"
    THEN IntV(mem[address].n) ELSE NoneV

eval_target(i) ==
    IF Contains(i.opcode, <<"r", "e", "t">>)
    THEN IF arch = "aarch64" THEN getreg("x30") ELSE read_int(getreg_sp)
    ELSE IF i.operand.form = "ptr" THEN read_int(i.operand.val.n)
    ELSE IF i.operand.form = "expr" THEN i.operand.val
    ELSE NoneV

\* An unresolved target is handed on as it is.
next_addr_kept(next_addr) == next_addr

\* if next_addr is None: next_addr = 0
next_addr_or_zero(next_addr) ==
    IF next_addr = NoneV THEN IntV(0) ELSE next_addr

\* One disjunct of a condition table: the test of the opcode, the flags it
\* then looks up, and what the looked-up flags decide.
Cond(match, keys, holds) == [match |-> match, keys |-> keys, holds |-> holds]

\* flags[k] inside a disjunct whose keys the dictionary has
F(flags, k) == IF k \in DOMAIN flags THEN flags[k] ELSE FALSE

\* The chain of "or": the first disjunct that is true decides; looking up a
\* flag the dictionary does not have raises KeyError.
RECURSIVE or_chain(_, _)
or_chain(conds, flags) ==
    IF conds = <<>> THEN "false"
    ELSE IF ~Head(conds).match THEN or_chain(Tail(conds), flags)
    ELSE IF ~(Head(conds).keys \subseteq DOMAIN flags) THEN "raise"
    ELSE IF Head(conds).holds THEN "true"
    ELSE or_chain(Tail(conds), flags)

StartsWith(str, prefix) ==
    Len(str) >= Len(prefix) /\ SubSeq(str, 1, Len(prefix)) = prefix

\* What a testjump returns: (status, address of target jumped instruction)
Pair(taken, jumpto) == [taken |-> taken, target |-> jumpto]

testjump_conds(opcode, flags) ==
    << Cond(opcode = <<"r", "e", "t">>, {}, TRUE),
       Cond(opcode = <<"j", "m", "p">>, {}, TRUE),
       Cond(opcode = <<"j", "e">>, {"ZF"}, F(flags, "ZF")),
       Cond(opcode = <<"j", "n", "e">>, {"ZF"}, ~F(flags, "ZF")),
       Cond(opcode = <<"j", "g">>, {"ZF", "SF", "OF"},
            ~F(flags, "ZF") /\ F(flags, "SF") = F(flags, "OF")),
       Cond(opcode = <<"j", "g", "e">>, {"SF", "OF"}, F(flags, "SF") = F(flags, "OF")),
       Cond(opcode = <<"j", "a">>, {"CF", "ZF"}, ~F(flags, "CF") /\ ~F(flags, "ZF")),
       Cond(opcode = <<"j", "a", "e">>, {"CF"}, ~F(flags, "CF")),
       Cond(opcode = <<"j", "l">>, {"SF", "OF"}, F(flags, "SF") # F(flags, "OF")),
       Cond(opcode = <<"j", "l", "e">>, {"ZF", "SF", "OF"},
            F(flags, "ZF") \/ F(flags, "SF") # F(flags, "OF")),
       Cond(opcode = <<"j", "b">>, {"CF"}, F(flags, "CF")),
       Cond(opcode = <<"j", "b", "e">>, {"CF", "ZF"}, F(flags, "CF") \/ F(flags, "ZF")),
       Cond(opcode = <<"j", "o">>, {"OF"}, F(flags, "OF")),
       Cond(opcode = <<"j", "n", "o">>, {"OF"}, ~F(flags, "OF")),
       Cond(opcode = <<"j", "z">>, {"ZF"}, F(flags, "ZF")),
       Cond(opcode = <<"j", "n", "z">>, {"OF"}, F(flags, "OF")) >>

\* testjump from the flags it read and the target eval_target gave
testjump_body(i, flags, dest) ==
    IF DOMAIN flags = {} THEN Ok(Pair(FALSE, NoneV))
    ELSE IF or_chain(testjump_conds(i.opcode, flags), flags) = "true"
    THEN Ok(Pair(TRUE, next_addr_or_zero(dest)))
    ELSE Ok(Pair(FALSE, NoneV))

testjump(i) == testjump_body(i, get_eflags, eval_target(i))

aarch64_testjump_conds(opcode, flags) ==
    << Cond(Contains(opcode, <<"r", "e", "t">>), {}, TRUE),
       Cond(opcode = <<"b">>, {}, TRUE),
       Cond(opcode = <<"b", ".", "e", "q">>, {"Z"}, F(flags, "Z")),
       Cond(opcode = <<"b", ".", "n", "e">>, {"Z"}, ~F(flags, "Z")),
       Cond(opcode = <<"b", ".", "c", "s">>, {"C"}, F(flags, "C")),
       Cond(opcode = <<"b", ".", "c", "c">>, {"C"}, ~F(flags, "C")),
       Cond(opcode = <<"b", ".", "m", "i">>, {"N"}, F(flags, "N")),
       Cond(opcode = <<"b", ".", "p", "l">>, {"N"}, ~F(flags, "N")),
       Cond(opcode = <<"b", ".", "v", "s">>, {"O"}, F(flags, "O")),
       Cond(opcode = <<"b", ".", "v", "c">>, {"O"}, ~F(flags, "O")),
       Cond(opcode = <<"b", ".", "h", "i">>, {"Z", "C"}, ~F(flags, "Z") /\ F(flags, "C")),
       Cond(opcode = <<"b", ".", "l", "s">>, {"C", "Z"}, ~F(flags, "C") /\ F(flags, "Z")),
       Cond(opcode = <<"b", ".", "g", "e">>, {"N", "V"}, F(flags, "N") = F(flags, "V")),
       Cond(opcode = <<"b", ".", "l", "t">>, {"N", "V"}, F(flags, "N") # F(flags, "V")),
       Cond(opcode = <<"b", ".", "g", "t">>, {"Z", "N", "V"},
            ~F(flags, "Z") /\ F(flags, "N") = F(flags, "V")),
       Cond(opcode = <<"b", ".", "l", "e">>, {"Z", "N", "V"},
            F(flags, "Z") /\ F(flags, "N") # F(flags, "V")) >>

\* What follows the condition table on ARM and AArch64: the branch is taken
\* when the table says so, and cbnz and cbz when their register evaluates
\* to 0.
branch_taken(i, chain, next_addr) ==
    IF chain = "raise" THEN Raised
    ELSE IF chain = "true" THEN Ok(Pair(TRUE, next_addr))
    ELSE IF i.opcode \in {<<"c", "b", "n", "z">>, <<"c", "b", "z">>} /\ i.rn = IntV(0)
    THEN Ok(Pair(TRUE, next_addr))
    ELSE Ok(Pair(FALSE, NoneV))

\* aarch64_testjump from the flags it read and the target eval_target gave
aarch64_testjump_body(i, flags, dest) ==
    IF DOMAIN flags = {} THEN Ok(Pair(FALSE, NoneV))
    ELSE branch_taken(i, or_chain(aarch64_testjump_conds(i.opcode, flags), flags),
                      next_addr_or_zero(dest))

aarch64_testjump(i) == aarch64_testjump_body(i, get_aarch64_cpsr, eval_target(i))

arm_testjump_conds(opcode, flags) ==
    << Cond(opcode = <<"b">>, {}, TRUE),
       Cond(StartsWith(opcode, <<"b", "e", "q">>), {"Z"}, F(flags, "Z")),
       Cond(StartsWith(opcode, <<"b", "n", "e">>), {"Z"}, ~F(flags, "Z")),
       Cond(StartsWith(opcode, <<"b", "c", "s">>), {"C"}, F(flags, "C")),
       Cond(StartsWith(opcode, <<"b", "c", "c">>), {"C"}, ~F(flags, "C")),
       Cond(StartsWith(opcode, <<"b", "m", "i">>), {"N"}, F(flags, "N")),
       Cond(StartsWith(opcode, <<"b", "p", "l">>), {"N"}, ~F(flags, "N")),
       Cond(StartsWith(opcode, <<"b", "v", "s">>), {"O"}, F(flags, "O")),
       Cond(StartsWith(opcode, <<"b", "v", "c">>), {"O"}, ~F(flags, "O")),
       Cond(StartsWith(opcode, <<"b", "h", "i">>), {"Z", "C"}, ~F(flags, "Z") /\ F(flags, "C")),
       Cond(StartsWith(opcode, <<"b", "l", "s">>), {"C", "Z"}, ~F(flags, "C") /\ F(flags, "Z")),
       Cond(StartsWith(opcode, <<"b", "g", "e">>), {"N", "V"}, F(flags, "N") = F(flags, "V")),
       Cond(StartsWith(opcode, <<"b", "l", "t">>), {"N", "V"}, F(flags, "N") # F(flags, "V")),
       Cond(StartsWith(opcode, <<"b", "g", "t">>), {"Z", "N", "V"},
            ~F(flags, "Z") /\ F(flags, "N") = F(flags, "V")),
       Cond(StartsWith(opcode, <<"b", "l", "e">>), {"Z", "N", "V"},
            F(flags, "Z") /\ F(flags, "N") # F(flags, "V")) >>

\* arm_testjump from the flags it read and the target eval_target gave
arm_testjump_body(i, flags, dest) ==
    IF DOMAIN flags = {} THEN Ok(Pair(FALSE, NoneV))
    ELSE branch_taken(i, or_chain(arm_testjump_conds(i.opcode, flags), flags),
                      next_addr_or_zero(dest))

arm_testjump(i) == arm_testjump_body(i, get_cpsr, eval_target(i))

\* The architectures "show architecture" names in these scenarios.
JumpArchs == {"i386:x86-64", "arm", "aarch64"}

X86Opcodes ==
    { <<"r", "e", "t">>, <<"j", "m", "p">>, <<"j", "e">>, <<"j", "n", "e">>, <<"j", "g">>, <<"j", "g", "e">>, <<"j", "a">>,
      <<"j", "a", "e">>, <<"j", "l">>, <<"j", "l", "e">>, <<"j", "b">>, <<"j", "b", "e">>, <<"j", "o">>, <<"j", "n", "o">>,
      <<"j", "z">>, <<"j", "n", "z">>, <<"j", "p">>, <<"c", "a", "l", "l">> }

ConditionCodes ==
    { <<"e", "q">>, <<"n", "e">>, <<"c", "s">>, <<"c", "c">>, <<"m", "i">>, <<"p", "l">>, <<"v", "s">>, <<"v", "c">>,
      <<"h", "i">>, <<"l", "s">>, <<"g", "e">>, <<"l", "t">>, <<"g", "t">>, <<"l", "e">> }

Aarch64Opcodes ==
    { <<"b", ".">> \o cc : cc \in ConditionCodes }
        \cup { <<"r", "e", "t">>, <<"r", "e", "t", "a", "a">>, <<"b">>, <<"b", "l">>, <<"c", "b", "z">>, <<"c", "b", "n", "z">> }

ArmOpcodes ==
    { <<"b">> \o cc : cc \in ConditionCodes }
        \cup { <<"b", "e", "q", ".", "n">>, <<"b">>, <<"b", "l">>, <<"b", "x">>, <<"c", "b", "z">>, <<"c", "b", "n", "z">> }

OpcodesOf(a) ==
    IF a = "aarch64" THEN Aarch64Opcodes
    ELSE IF a = "arm" THEN ArmOpcodes
    ELSE X86Opcodes

Operands ==
    {NoOperand}
        \cup {Operand("expr", v) : v \in {NoneV, IntV(1), IntV(2)}}
        \cup {Operand("ptr", IntV(a)) : a \in {0, 1}}

\* The first operand register of cbz and cbnz evaluates to 0, to 1 or not
\* at all; other instructions have none.
RnOf(opcode) ==
    IF opcode \in {<<"c", "b", "n", "z">>, <<"c", "b", "z">>} THEN {NoneV, IntV(0), IntV(1)} ELSE {NoneV}

\* eflags has its reserved bit 1 set on every x86; cpsr may be all zero.
FlagRegs(fixed, free) == {NoReg} \cup {Reg(fixed \cup S) : S \in SUBSET free}

\* Address 0 cannot be read; the word at a holds a.
JumpMem == [a \in Addr |-> IF a = 0 THEN NoMem ELSE WordCell(a)]

InitJump ==
    /\ pid = 1
    /\ execfile = BinFile
    /\ target = "local"
    /\ procmaps = <<>>
    /\ infofiles = <<>>
    /\ sections = <<>>
    /\ regsp \in {0, 1}
    /\ mem = JumpMem
    /\ call = NoCall
    /\ ret = RetNone
    /\ arch \in JumpArchs
    /\ stk = <<>>
    /\ cache = EmptyCache
    /\ invocation = 0
    /\ stage = "prompt"
    /\ served = NoServed
    /\ SecIdle
    /\ eflags \in (IF arch = "i386:x86-64" THEN FlagRegs({1}, {0, 6, 7, 11}) ELSE {NoReg})
    /\ cpsr \in (IF arch = "i386:x86-64" THEN {NoReg} ELSE FlagRegs({}, {28, 29, 30, 31}))
    /\ \E opcode \in OpcodesOf(arch), operand \in Operands :
           inst \in {Insn(opcode, operand, rn) : rn \in RnOf(opcode)}
    /\ regs = IF arch = "aarch64" THEN [x30 |-> 2] ELSE [r0 |-> 2]
    /\ prev_insts = <<>>
    /\ ExtIdle

\* Stopped at a branch, the context code asks the architecture's testjump.
Testjump ==
    /\ call = NoCall
    /\ call' = Call(IF arch = "aarch64" THEN "aarch64_testjump"
                    ELSE IF arch = "arm" THEN "arm_testjump"
                    ELSE "testjump", 0, 0, SelNone)
    /\ ret' = IF arch = "aarch64" THEN aarch64_testjump(inst)
              ELSE IF arch = "arm" THEN arm_testjump(inst)
              ELSE testjump(inst)
    /\ UNCHANGED <<env, memo, aux>>

NextJump == Testjump \/ Return

SpecJump == InitJump /\ [][NextJump]_vars

\* ------------------------------------------------------ SpecJump properties
\* The jump destination the operand of a jump that is no return denotes.
JumpDestination ==
    IF inst.operand.form = "expr" THEN inst.operand.val
    ELSE IF inst.operand.form = "ptr" /\ inst.operand.val.n # 0
    THEN IntV(mem[inst.operand.val.n].n)
    ELSE NoneV

C12_Asked(opcode) ==
    call.op = "testjump" /\ eflags.some /\ inst.opcode = opcode

\* C12: on x86 and x86-64, for every value of EFLAGS, testjump('je') is taken
\* iff ZF is set and testjump('jge') is taken iff SF = OF; and when the branch
\* is taken the returned target is the decoded jump destination.
C12_JeJgeTaken ==
    /\ C12_Asked(<<"j", "e">>) =>
           /\ ret.st = "ok"
           /\ ret.val.taken = (6 \in eflags.bits)
    /\ C12_Asked(<<"j", "g", "e">>) =>
           /\ ret.st = "ok"
           /\ ret.val.taken = ((7 \in eflags.bits) = (11 \in eflags.bits))
    /\ (C12_Asked(<<"j", "e">>) \/ C12_Asked(<<"j", "g", "e">>)) /\ JumpDestination # NoneV =>
           (ret.val.taken => ret.val.target = JumpDestination)

\* je with ZF set is taken to the word a memory operand points at.
C12_Witness ==
    /\ C12_Asked(<<"j", "e">>)
    /\ 6 \in eflags.bits
    /\ inst.operand = Operand("ptr", IntV(1))
    /\ ret = Ok(Pair(TRUE, IntV(1)))

C13_N == 31 \in cpsr.bits
C13_Z == 30 \in cpsr.bits
C13_V == 28 \in cpsr.bits

\* What aarch64_testjump answers for 'b.'+cc under the flags and target that
\* arm_testjump had for 'b'+cc.
C13_Aarch64For(cc) ==
    aarch64_testjump_body(Insn(<<"b", ".">> \o cc, inst.operand, inst.rn),
                          get_aarch64_cpsr, eval_target(inst))

\* C13: aarch64_testjump('b.le') is taken iff Z and N # V; and for every
\* condition code cc and every assignment of N, Z, C, V, arm_testjump('b'+cc)
\* and aarch64_testjump('b.'+cc) give the same taken/not-taken outcome.
C13_ArmMirrorsAarch64 ==
    /\ call.op = "aarch64_testjump" /\ cpsr.some /\ inst.opcode = <<"b", ".", "l", "e">> =>
           /\ ret.st = "ok"
           /\ ret.val.taken = (C13_Z /\ C13_N # C13_V)
    /\ \A cc \in ConditionCodes :
           call.op = "arm_testjump" /\ cpsr.some /\ inst.opcode = <<"b">> \o cc =>
               /\ ret.st = "ok"
               /\ C13_Aarch64For(cc).st = "ok"
               /\ ret.val.taken = C13_Aarch64For(cc).val.taken

C14_Jumps == {"testjump", "aarch64_testjump", "arm_testjump"}

\* The function that answered, on another target.
C14_WithTarget(dest) ==
    IF call.op = "testjump" THEN testjump_body(inst, get_eflags, dest)
    ELSE IF call.op = "aarch64_testjump"
    THEN aarch64_testjump_body(inst, get_aarch64_cpsr, dest)
    ELSE arm_testjump_body(inst, get_cpsr, dest)

C14_Unresolved == call.op \in C14_Jumps /\ eval_target(inst) = NoneV

\* C14 as stated: when eval_target returns None the returned target is None,
\* and the taken boolean is what it is with a resolvable target.
C14_UnresolvedTargetIsNone ==
    C14_Unresolved /\ ret.st = "ok" =>
        /\ ret.val.target = NoneV
        /\ \A a \in {1, 2} : ret.val.taken = C14_WithTarget(IntV(a)).val.taken

\* C14: when eval_target returns None the returned target is 0 if the branch
\* is taken and None if it is not, and the taken boolean is what it is with
\* a resolvable target under the same opcode and flags.
C14_UnresolvedTargetIsZero ==
    C14_Unresolved =>
        \A a \in {1, 2} :
            /\ ret.st = C14_WithTarget(IntV(a)).st
            /\ ret.st = "ok" =>
                   /\ ret.val.taken = C14_WithTarget(IntV(a)).val.taken
                   /\ ret.val.target = IF ret.val.taken THEN IntV(0) ELSE NoneV

\* A taken jump whose operand gdb cannot evaluate.
C14_Witness ==
    /\ C14_Unresolved
    /\ inst.operand = Operand("expr", NoneV)
    /\ ret = Ok(Pair(TRUE, IntV(0)))

\* The opcode has an entry in the condition table of the function asked.
C15_InTable ==
    \/ call.op = "testjump" /\ inst.opcode \in X86Opcodes \ {<<"j", "p">>, <<"c", "a", "l", "l">>}
    \/ call.op = "aarch64_testjump" /\ inst.opcode \in Aarch64Opcodes \ {<<"b", "l">>}
    \/ call.op = "arm_testjump" /\ inst.opcode \in ArmOpcodes \ {<<"b", "l">>, <<"b", "x">>}

\* C15: for every opcode and every flag state the three functions return a
\* pair (bool, target) without raising, and an opcode without an entry in
\* the architecture's condition table yields (False, None).
C15_ReturnsPair ==
    call.op \in C14_Jumps =>
        /\ ret.st = "ok"
        /\ ret.val.taken \in BOOLEAN
        /\ ~C15_InTable => ret.val = Pair(FALSE, NoneV)

\* ---------------------------------------------------------------------
\* ArgumentInferencer: the arguments of the call the debuggee stopped at
\* ---------------------------------------------------------------------

MaxWindow == 2

\* A disassembled instruction before pc: its opcode, the operand text that
\* the register regexes capture (up to the first comma; empty when the line
\* has no such text), and the text between "[esp" and "]," of a mov to the
\* stack ("no" when the line is no such mov, else "", "+<n>" or "+<junk>").
ArgInst(opcode, operand, esp) == [opcode |-> opcode, operand |-> operand, esp |-> esp]
EspNo == [k |-> "no", n |-> 0]
EspPlain == [k |-> "plain", n |-> 0]
EspPlus(n) == [k |-> "plus", n |-> n]
EspJunk == [k |-> "junk", n |-> 0]

\* getarch()[0]: the name of the architecture
getarch_name ==
    IF arch = "i386:x86-64" THEN <<"e", "l", "f", "6", "4", "-", "x", "8", "6", "-", "6", "4">>
    ELSE IF arch = "i386" THEN <<"e", "l", "f", "3", "2", "-", "i", "3", "8", "6">>
    ELSE IF arch = "arm" THEN <<"e", "l", "f", "3", "2", "-", "l", "i", "t", "t", "l", "e", "a", "r", "m">>
    ELSE IF arch = "aarch64" THEN <<"e", "l", "f", "6", "4", "-", "l", "i", "t", "t", "l", "e", "a", "a", "r", "c", "h", "6", "4">>
    ELSE <<"e", "l", "f", "3", "2", "-", "p", "o", "w", "e", "r", "p", "c">>

\* token in m: re.findall finds the token in the captured operand texts
found(code, token) ==
    token # <<>> /\ \E k \in DOMAIN code : Contains(code[k].operand, token)

\* m.count(token), or the count of the w register when the x register is
\* not in m
count(code, token, alt) ==
    IF found(code, token) \/ found(code, alt) THEN 1 ELSE 0

\* "if argc > i - 2: argc += m.count(order[i])" for i = 1 .. 6
RECURSIVE guess_argc(_, _, _, _, _)
guess_argc(code, tokens, alts, i, argc) ==
    IF i > Len(tokens) THEN argc
    ELSE guess_argc(code, tokens, alts, i + 1,
                    IF argc > i - 2 THEN argc + count(code, tokens[i], alts[i])
                    ELSE argc)

\* "dirty fix": the second register in m and the first not
dirty_fix(code, tokens) ==
    IF found(code, tokens[2]) /\ ~found(code, tokens[1]) THEN 1 ELSE 0

\* args += [regs[arg_order[i]]] for i in range(argc)
args_from_regs(arg_order, argc) ==
    IF \A i \in 1 .. argc : arg_order[i] \in DOMAIN regs
    THEN Ok([i \in 1 .. argc |-> IntV(regs[arg_order[i]])])
    ELSE Raised

NoAlts == << <<>>, <<>>, <<>>, <<>>, <<>>, <<>> >>

get_function_args_64(code, argc) ==
    LET tokens == <<<<"d", "i">>, <<"s", "i">>, <<"d", "x">>, <<"c", "x">>, <<"r", "8">>, <<"r", "9">>>>
    IN  args_from_regs(<<"rdi", "rsi", "rdx", "rcx", "r8", "r9">>,
                       guess_argc(code, tokens, NoAlts, 1, dirty_fix(code, tokens)))

get_function_args_arm(code, argc) ==
    LET tokens == <<<<"r", "0">>, <<"r", "1">>, <<"r", "2">>, <<"r", "3">>, <<"r", "4">>, <<"r", "5">>>>
    IN  args_from_regs(<<"r0", "r1", "r2", "r3", "r4", "r5">>,
                       guess_argc(code, tokens, NoAlts, 1, dirty_fix(code, tokens)))

get_function_args_aarch64(code, argc) ==
    LET tokens == <<<<"x", "0">>, <<"x", "1">>, <<"x", "2">>, <<"x", "3">>, <<"x", "4">>, <<"x", "5">>>>
        alts == << <<>>, <<"w", "1">>, <<"w", "2">>, <<"w", "3">>, <<"w", "4">>, <<"w", "5">>>>
    IN  args_from_regs(<<"x0", "x1", "x2", "x3", "x4", "x5">>,
                       guess_argc(code, tokens, alts, 1, dirty_fix(code, tokens)))

\* "matches = p.findall(code)": no p is defined, NameError
get_function_args_ppc(code, argc) == Raised

Min(a, b) == IF a < b THEN a ELSE b

\* code.count("push"): the times the text "push" occurs in the window, in an
\* opcode or in an operand.
push_count(code) ==
    Cardinality({k \in DOMAIN code : Contains(code[k].opcode, <<"p", "u", "s", "h">>)})
        + Cardinality({k \in DOMAIN code : Contains(code[k].operand, <<"p", "u", "s", "h">>)})

\* The lines "mov ... [esp...]," of the window.
esp_matches(code) == {k \in DOMAIN code : code[k].esp.k # "no"}

\* "if offset is not None and (offset // 4) > l: continue"
esp_skipped(code, k) ==
    code[k].esp.k = "plus" /\ code[k].esp.n \div 4 > Cardinality(esp_matches(code))

\* The words read at sp, sp + 4, ...: at most 6.  The stack is an array of
\* words: the word i * 4 bytes above sp is word i.
stack_args(argc) == Ok([i \in 1 .. Min(argc, 6) |-> read_int(getreg_sp + (i - 1))])

get_function_args_32_every_mov(code, argc) ==
    stack_args(IF argc # 0 THEN argc
               ELSE IF esp_matches(code) # {} THEN Cardinality(esp_matches(code))
               ELSE push_count(code))

\* Without a forced argc: the mov [esp...] lines, all but those whose
\* offset // 4 is more than the number of such lines, or else
\* code.count("push").
get_function_args_32(code, argc) ==
    stack_args(IF argc # 0 THEN argc
               ELSE IF esp_matches(code) # {}
               THEN Cardinality({k \in esp_matches(code) : ~esp_skipped(code, k)})
               ELSE push_count(code))

\* The instructions after the last call-type instruction before pc.
RECURSIVE call_window(_, _)
call_window(insts, calltype) ==
    IF insts = <<>> THEN <<>>
    ELSE IF Contains(insts[Len(insts)].opcode, calltype) THEN <<>>
    ELSE Append(call_window(SubSeq(insts, 1, Len(insts) - 1), calltype),
                insts[Len(insts)])

\* get_function_args(argc): argc = 0 stands for None
get_function_args(argc) ==
    IF DOMAIN regs = {} THEN Ok(<<>>)
    ELSE IF prev_insts = <<>> THEN Ok(<<>>)
    ELSE IF Contains(getarch_name, <<"a", "a", "r", "c", "h", "6", "4">>)
    THEN get_function_args_aarch64(call_window(prev_insts, <<"b", "l">>), argc)
    ELSE IF Contains(getarch_name, <<"i", "3", "8", "6">>)
    THEN get_function_args_32(call_window(prev_insts, <<"c", "a", "l", "l">>), argc)
    ELSE IF Contains(getarch_name, <<"6", "4">>)
    THEN get_function_args_64(call_window(prev_insts, <<"c", "a", "l", "l">>), argc)
    ELSE IF Contains(getarch_name, <<"a", "r", "m">>)
    THEN get_function_args_arm(call_window(prev_insts, <<"c", "a", "l", "l">>), argc)
    ELSE IF Contains(getarch_name, <<"p", "o", "w", "e", "r", "p", "c">>)
    THEN get_function_args_ppc(call_window(prev_insts, <<"c", "a", "l", "l">>), argc)
    ELSE Ok(<<>>)

\* The architectures "show architecture" (or the file type) names here.
ArgArchs == {"i386", "i386:x86-64", "arm", "aarch64", "powerpc:common"}

\* The argument registers of an architecture, in order.
ArgOrderOf(a) ==
    IF a = "i386:x86-64" THEN <<"rdi", "rsi", "rdx", "rcx", "r8", "r9">>
    ELSE IF a = "arm" THEN <<"r0", "r1", "r2", "r3", "r4", "r5">>
    ELSE IF a = "aarch64" THEN <<"x0", "x1", "x2", "x3", "x4", "x5">>
    ELSE IF a = "powerpc:common" THEN <<"r3", "r4", "r5", "r6", "r7", "r8">>
    ELSE <<"eax">>

\* The texts that name an argument register or a part of it.
NamesOf(r) ==
    CASE r = "rdi" -> {<<"r", "d", "i">>, <<"e", "d", "i">>}
      [] r = "rsi" -> {<<"r", "s", "i">>, <<"e", "s", "i">>}
      [] r = "rdx" -> {<<"r", "d", "x">>}
      [] r = "rcx" -> {<<"r", "c", "x">>}
      [] r = "r8" -> {<<"r", "8">>}
      [] r = "r9" -> {<<"r", "9">>}
      [] r = "r0" -> {<<"r", "0">>}
      [] r = "r1" -> {<<"r", "1">>}
      [] r = "r2" -> {<<"r", "2">>}
      [] r = "r3" -> {<<"r", "3">>}
      [] r = "r4" -> {<<"r", "4">>}
      [] r = "r5" -> {<<"r", "5">>}
      [] r = "r6" -> {<<"r", "6">>}
      [] r = "r7" -> {<<"r", "7">>}
      [] r = "x0" -> {<<"x", "0">>, <<"w", "0">>}
      [] r = "x1" -> {<<"x", "1">>, <<"w", "1">>}
      [] r = "x2" -> {<<"x", "2">>, <<"w", "2">>}
      [] r = "x3" -> {<<"x", "3">>}
      [] r = "x4" -> {<<"x", "4">>}
      [] r = "x5" -> {<<"x", "5">>}
      [] OTHER -> {}

\* Register i of the order has the value i.
RegsOf(a) ==
    [r \in {ArgOrderOf(a)[i] : i \in DOMAIN ArgOrderOf(a)} |->
        CHOOSE i \in DOMAIN ArgOrderOf(a) : ArgOrderOf(a)[i] = r]

Mov(operand) == ArgInst(<<"m", "o", "v">>, operand, EspNo)

\* The instructions a window is made of, by architecture.
ArgInsts(a) ==
    IF a = "i386:x86-64"
    THEN {Mov(t) : t \in {<<"r", "d", "i">>, <<"r", "s", "i">>, <<"r", "d", "x">>, <<"e", "d", "i">>, <<"r", "a", "x">>}}
             \cup {ArgInst(<<"c", "a", "l", "l">>, <<>>, EspNo)}
    ELSE IF a = "arm"
    THEN {Mov(t) : t \in {<<"r", "0">>, <<"r", "1">>, <<"r", "2">>, <<"r", "1", "0">>}}
             \cup {ArgInst(<<"b", "l">>, <<"0", "x", "8">>, EspNo)}
    ELSE IF a = "aarch64"
    THEN {Mov(t) : t \in {<<"x", "0">>, <<"x", "1">>, <<"x", "2">>, <<"w", "0">>, <<"w", "1">>,
                         <<"x", "1", "9">>}}
             \cup {ArgInst(<<"b", "l">>, <<"0", "x", "8">>, EspNo)}
    ELSE IF a = "powerpc:common"
    THEN {ArgInst(<<"l", "i">>, t, EspNo) : t \in {<<"r", "3">>, <<"r", "4">>, <<"r", "5">>}}
             \cup {ArgInst(<<"b", "l">>, <<"0", "x", "8">>, EspNo)}
    ELSE {ArgInst(<<"m", "o", "v">>, <<>>, e) : e \in {EspPlain, EspPlus(4), EspPlus(32), EspJunk}}
             \cup {ArgInst(<<"p", "u", "s", "h">>, <<>>, EspNo), ArgInst(<<"c", "a", "l", "l">>, <<>>, EspNo),
                   ArgInst(<<"x", "o", "r">>, <<>>, EspNo),
                   ArgInst(<<"j", "m", "p">>, <<"p", "u", "s", "h">>, EspNo)}

\* A window that sets every argument register, or pushes seven words.
FullWindow(a) ==
    IF a = "i386" THEN [i \in 1 .. 7 |-> ArgInst(<<"p", "u", "s", "h">>, <<>>, EspNo)]
    ELSE [i \in 1 .. 6 |->
             Mov(CHOOSE t \in NamesOf(ArgOrderOf(a)[i]) : TRUE)]

ForcedCounts == 0 .. 7

InitArgs ==
    /\ pid = 1
    /\ execfile = BinFile
    /\ target = "local"
    /\ procmaps = <<>>
    /\ infofiles = <<>>
    /\ sections = <<>>
    /\ regsp = 1
    /\ mem = JumpMem
    /\ call = NoCall
    /\ ret = RetNone
    /\ arch \in ArgArchs
    /\ stk = <<>>
    /\ cache = EmptyCache
    /\ invocation = 0
    /\ stage = "prompt"
    /\ served = NoServed
    /\ SecIdle
    /\ eflags = NoReg
    /\ cpsr = NoReg
    /\ inst = NoInsn
    /\ regs \in {RegsOf(arch), <<>>}
    /\ prev_insts \in SeqsUpTo(ArgInsts(arch), MaxWindow) \cup {FullWindow(arch)}
    /\ ExtIdle

\* dumpargs [count]: the guessed, or the forced number of, arguments.
GetFunctionArgs(argc) ==
    /\ call = NoCall
    /\ call' = Call("get_function_args", argc, 0, SelNone)
    /\ ret' = get_function_args(argc)
    /\ UNCHANGED <<env, memo, aux>>

NextArgs == (\E argc \in ForcedCounts : GetFunctionArgs(argc)) \/ Return

SpecArgs == InitArgs /\ [][NextArgs]_vars

\* ------------------------------------------------------ SpecArgs properties
\* The window of the call that was asked about.
Window ==
    call_window(prev_insts, IF arch = "aarch64" THEN <<"b", "l">> ELSE <<"c", "a", "l", "l">>)

\* Argument register i of the architecture is named in the window.
Referenced(i) ==
    \E k \in DOMAIN Window : Window[k].operand \in NamesOf(ArgOrderOf(arch)[i])

\* The length of the longest prefix of the order that is all referenced.
PrefixLen ==
    CHOOSE n \in 0 .. 6 :
        /\ \A i \in 1 .. n : Referenced(i)
        /\ n < 6 => ~Referenced(n + 1)

ValuesOf(n) == [i \in 1 .. n |-> IntV(regs[ArgOrderOf(arch)[i]])]

\* get_function_args answered with the registers and a window at hand.
Inferred(archs) ==
    /\ call.op = "get_function_args"
    /\ arch \in archs
    /\ DOMAIN regs # {}
    /\ prev_insts # <<>>

\* The exception to the monotonic rule: the second register without the first.
SecondWithoutFirst == Referenced(2) /\ ~Referenced(1)

\* C16: on x86-64, ARM and AArch64 the result is the values of the longest
\* prefix of the order of argument registers whose registers are all
\* referenced in the window (the second without the first set aside).
C16_LongestPrefix ==
    Inferred({"i386:x86-64", "arm", "aarch64"}) /\ ~SecondWithoutFirst =>
        ret = Ok(ValuesOf(PrefixLen))

\* C17: with the second argument register referenced, the first not, and no
\* further one, exactly one value is returned.
C17_SecondAloneIsOne ==
    /\ Inferred({"i386:x86-64", "arm", "aarch64"})
    /\ SecondWithoutFirst
    /\ \A i \in 3 .. 6 : ~Referenced(i)
    => ret.st = "ok" /\ Len(ret.val) = 1

\* C18: with a forced count n, 1 <= n <= 6, the result has exactly n values
\* on every architecture.
C18_ForcedCount ==
    Inferred(ArgArchs) /\ call.value \in 1 .. 6 =>
        ret.st = "ok" /\ Len(ret.val) = call.value

\* C19: on every architecture the result is a list of at most 6 values, and
\* the empty list when the window holds no call setup.
C19_AtMostSix ==
    call.op = "get_function_args" =>
        /\ ret.st = "ok"
        /\ Len(ret.val) <= 6
        /\ (call.value = 0 /\ Window = <<>>) => ret.val = <<>>

\* C20: on PowerPC the result is the values of the first argc of r3 .. r8,
\* argc counted over the registers referenced in the window under the
\* monotonic rule.
C20_PowerPC ==
    Inferred({"powerpc:common"}) /\ ~SecondWithoutFirst =>
        ret = Ok(ValuesOf(PrefixLen))

\* ---------------------------------------------- further properties of SpecMem
\* A range of the snapshot whose permissions include write holds the value.
InWritableRange(value) ==
    \E i \in DOMAIN Snapshot :
        /\ Snapshot[i].start <= value /\ value < Snapshot[i].end
        /\ InStr("w", Snapshot[i].perm)

\* The heap region holds the value.
InHeapRegion(value) ==
    \E i \in DOMAIN Snapshot :
        /\ Snapshot[i].start <= value /\ value < Snapshot[i].end
        /\ Contains(Snapshot[i].mapname, <<"h", "e", "a", "p">>)

C21_Asked == call.op = "examine_mem_value" /\ InWritableRange(call.value)

\* C21: every address in a range whose permissions include write is
\* classified as data or heap, heap exactly when it lies in the heap region,
\* and never as code or rodata, also when the range is executable as well.
C21_WritableIsDataOrHeap ==
    C21_Asked =>
        /\ ret.st = "ok"
        /\ ret.val.t \in {"data", "heap"}
        /\ (ret.val.t = "heap") = InHeapRegion(call.value)

\* The address lies in a range of the snapshot and its word cannot be read.
ReadFails(a) == a \in Addr /\ InSomeRange(a, Snapshot) /\ ~readable(a)

\* The classified value of an address whose word cannot be read.
ReadFailedEntry(e, a) ==
    /\ e.v = HexV(a)
    /\ e.t \in {"data", "heap", "code", "rodata"}
    /\ e.vn = StrV("MemError")

\* The addresses an unbounded walk from the value hits first and second.
WalkHits(value) ==
    {value} \cup {mem[a].n : a \in {b \in {value} \cap Addr :
                                       InSomeRange(b, Snapshot) /\ mem[b].k = "word"}}

\* C22: when the word at an address inside a known range cannot be read,
\* examine_mem_value returns the address, a kind and a read-failed sentinel
\* as payload, and a chain walk that hits such an address ends with that
\* entry, in writable, executable and read-only ranges alike.
C22_ReadFailureIsSentinel ==
    /\ call.op = "examine_mem_value" /\ ReadFails(call.value) =>
           ret.st = "ok" /\ ReadFailedEntry(ret.val, call.value)
    /\ call.op = "examine_mem_reference" /\ call.depth <= 0 =>
           \A a \in WalkHits(call.value) :
               ReadFails(a) =>
                   /\ ret.st = "ok"
                   /\ ret.val # <<>>
                   /\ ReadFailedEntry(ret.val[Len(ret.val)], a)

\* ------------------------------------------ further properties of SpecArgs
\* The call-type opcode of an architecture: call on x86 and x86-64, bl on
\* ARM, AArch64 and PowerPC.
CallTypeOf(a) ==
    IF a \in {"i386", "i386:x86-64"} THEN <<"c", "a", "l", "l">> ELSE <<"b", "l">>

\* The instructions before pc that come after the most recent call-type
\* instruction of the architecture.
SinceLastCall == call_window(prev_insts, CallTypeOf(arch))

\* The architecture's inferencer, run on a window.
InferOn(code, argc) ==
    IF arch = "aarch64" THEN get_function_args_aarch64(code, argc)
    ELSE IF arch = "i386" THEN get_function_args_32(code, argc)
    ELSE IF arch = "i386:x86-64" THEN get_function_args_64(code, argc)
    ELSE IF arch = "arm" THEN get_function_args_arm(code, argc)
    ELSE get_function_args_ppc(code, argc)

\* C24: on every architecture the window handed to the inferencer is the
\* instructions after the most recent call-type instruction (call on x86 and
\* x86-64, bl on ARM, AArch64 and PowerPC): the result is the one inferred
\* from those instructions alone.
C24_WindowSinceLastCall ==
    Inferred(ArgArchs) => ret = InferOn(SinceLastCall, call.value)

C24_OnCallAndAarch64 ==
    Inferred({"i386", "i386:x86-64", "aarch64"}) => ret = InferOn(SinceLastCall, call.value)

\* The mov-to-[esp...] writes of the window.
EspWrites == esp_matches(Window)

\* The instructions of the window whose opcode is push.
Pushes == {k \in DOMAIN Window : Window[k].opcode = <<"p", "u", "s", "h">>}

\* The words at sp, sp + 4, ..., n of them and at most 6.
StackWords(n) == [i \in 1 .. Min(n, 6) |-> read_int(regsp + (i - 1))]

C25_Asked == Inferred({"i386"}) /\ call.value = 0

C25_EveryWrite ==
    IF EspWrites # {} THEN Cardinality(EspWrites) ELSE Cardinality(Pushes)

C25_WritesInRange ==
    IF EspWrites # {}
    THEN Cardinality({k \in EspWrites :
             ~(Window[k].esp.k = "plus"
               /\ Window[k].esp.n \div 4 > Cardinality(EspWrites))})
    ELSE push_count(Window)

\* C25 as first stated: the count is the number of mov-to-[esp+offset] writes
\* of the window, or else the number of push instructions.
C25_CountsEveryWrite == C25_Asked => ret = Ok(StackWords(C25_EveryWrite))

\* C25: on x86 (32-bit) without a forced count the argument count is the
\* number of mov-to-[esp+offset] writes in the window, a write whose offset
\* divided by 4 is more than the number of such writes not counted, or, when
\* there is no such write, the number of times "push" occurs in the window;
\* the result is that many, at most 6, consecutive words at sp, sp + 4, ...,
\* and the empty list for a count of 0.
C25_StackWords ==
    C25_Asked =>
        /\ ret = Ok(StackWords(C25_WritesInRange))
        /\ C25_WritesInRange = 0 => ret.val = <<>>
        /\ Len(ret.val) <= 6

\* A window with a write that is counted and one that is not.
C25_Witness ==
    /\ C25_Asked
    /\ \E k \in EspWrites : Window[k].esp = EspPlus(32)
    /\ \E k \in EspWrites : Window[k].esp = EspPlus(4)
    /\ ret.st = "ok" /\ Len(ret.val) = 1

\* ------------------------------------------ further properties of SpecJump
\* The architecture's testjump.
TestjumpOf(i) ==
    IF arch = "aarch64" THEN aarch64_testjump(i)
    ELSE IF arch = "arm" THEN arm_testjump(i)
    ELSE testjump(i)

\* In the state at hand the instruction at pc, were its opcode the one
\* given, is reported taken.
TakenIf(opcode) ==
    /\ TestjumpOf(Insn(opcode, inst.operand, inst.rn)).st = "ok"
    /\ TestjumpOf(Insn(opcode, inst.operand, inst.rn)).val.taken

\* The flags register could be read, and as flags.
FlagsRead ==
    IF arch = "i386:x86-64" THEN DOMAIN get_eflags # {} ELSE cpsr.some

ZF == flag_bit(eflags, {6})

C26_Asked == call.op = "testjump" /\ FlagsRead

\* C26: the x86 synonyms agree for every EFLAGS value: jz is taken exactly
\* when je is, and jnz exactly when jne is, that is when ZF is clear.
C26_SynonymsAgree ==
    C26_Asked =>
        /\ inst.opcode = <<"j", "z">> =>
               ret.st = "ok" /\ ret.val.taken = TakenIf(<<"j", "e">>) /\ ret.val.taken = ZF
        /\ inst.opcode = <<"j", "n", "z">> =>
               ret.st = "ok" /\ ret.val.taken = TakenIf(<<"j", "n", "e">>) /\ ret.val.taken = ~ZF

C26_JzAgrees ==
    C26_Asked /\ inst.opcode = <<"j", "z">> =>
        ret.st = "ok" /\ ret.val.taken = TakenIf(<<"j", "e">>) /\ ret.val.taken = ZF

\* The pairs of opposite conditions, by architecture.
OppositeCodes ==
    { <<<<"e", "q">>, <<"n", "e">>>>, <<<<"c", "s">>, <<"c", "c">>>>, <<<<"m", "i">>, <<"p", "l">>>>,
      <<<<"h", "i">>, <<"l", "s">>>>, <<<<"g", "e">>, <<"l", "t">>>>, <<<<"g", "t">>, <<"l", "e">>>> }

Opposites(a) ==
    IF a = "aarch64"
    THEN {<<<<"b", ".">> \o p[1], <<"b", ".">> \o p[2]>> : p \in OppositeCodes}
             \cup {<<<<"c", "b", "z">>, <<"c", "b", "n", "z">>>>}
    ELSE IF a = "arm"
    THEN {<<<<"b">> \o p[1], <<"b">> \o p[2]>> : p \in OppositeCodes}
             \cup {<<<<"c", "b", "z">>, <<"c", "b", "n", "z">>>>}
    ELSE { <<<<"j", "e">>, <<"j", "n", "e">>>>, <<<<"j", "a">>, <<"j", "b", "e">>>>, <<<<"j", "a", "e">>, <<"j", "b">>>>,
           <<<<"j", "g">>, <<"j", "l", "e">>>>, <<<<"j", "g", "e">>, <<"j", "l">>>> }

\* The flags were read, and the register of a cbz or cbnz evaluated.
C27_Asked ==
    /\ call.op \in C14_Jumps
    /\ FlagsRead
    /\ inst.opcode \in {<<"c", "b", "z">>, <<"c", "b", "n", "z">>} => inst.rn # NoneV

\* Exactly one opcode of the pair is reported taken.
ExactlyOne(p) == TakenIf(p[1]) # TakenIf(p[2])

\* C27: opposite conditions are complementary: of each pair of opposite
\* opcodes exactly one is reported taken in every flag and register state.
C27_Complementary ==
    C27_Asked =>
        \A p \in Opposites(arch) :
            inst.opcode \in {p[1], p[2]} =>
                /\ ret.st = "ok"
                /\ ret.val.taken = TakenIf(inst.opcode)
                /\ ExactlyOne(p)

C27_X86Complementary ==
    C27_Asked /\ arch = "i386:x86-64" =>
        \A p \in Opposites(arch) : inst.opcode \in {p[1], p[2]} => ExactlyOne(p)

C27_SingleFlagComplementary ==
    C27_Asked /\ arch # "i386:x86-64" =>
        \A p \in Opposites(arch) :
            /\ inst.opcode \in {p[1], p[2]}
            /\ \A q \in {<<"h", "i">>, <<"g", "t">>, <<"c", "b", "z">>} : ~Contains(p[1], q)
            => ExactlyOne(p)

\* ---------------------------------------------------------------------
\* Raw writes: writemem, write_int, and the classifier after a write
\* ---------------------------------------------------------------------

\* intsize(): the bytes of a machine word (4 or 8 in the code), scaled to
\* the model's address space.
WordBytes == 2

\* The values of a byte: NUL and the letter A.
ByteValues == {0, 65}

\* utils.is_printable of one byte
is_printable_byte(b) == b >= 32 /\ b < 127

\* unpack: the unsigned integer a little-endian byte string stands for
RECURSIVE unpack(_)
unpack(s) == IF s = <<>> THEN 0 ELSE Head(s) + 256 * unpack(Tail(s))

\* hex2str(value, intsize).ljust(intsize, "\x00")[:intsize]: the intsize
\* low bytes of the value, little-endian
RECURSIVE hex2str(_, _)
hex2str(value, intsize) ==
    IF intsize = 0 THEN <<>>
    ELSE <<value % 256>> \o hex2str(value \div 256, intsize - 1)

\* read_mem(address, size) on a byte memory: the bytes, None when one of
\* them cannot be read
read_mem(m, address, size) ==
    IF \A i \in 0 .. size - 1 : address + i \in DOMAIN m /\ m[address + i].r
    THEN Ok([i \in 1 .. size |-> m[address + i - 1].v])
    ELSE RetNone

\* The debugger can write the byte at the address.
can_write(m, a) == a \in DOMAIN m /\ m[a].w

\* The memory with the first n bytes of buf stored from the address on.
store(m, address, buf, n) ==
    [a \in DOMAIN m |->
        IF a >= address /\ a < address + n
        THEN Byte(buf[a - address + 1], m[a].r, m[a].w)
        ELSE m[a]]

\* "restore <file> binary <address>": the debugger's message when the whole
\* of buf was written; an error is raised otherwise, and execute returns
\* False.  The bytes a failed restore wrote are written again by the slow
\* way.
restore_binary(m, address, buf) ==
    IF \A i \in 1 .. Len(buf) : can_write(m, address + i - 1)
    THEN "Restoring binary file" ELSE ""

\* The slow way: "set {char}<address + i> = <byte>" byte by byte; the index
\* of the first byte that fails is returned, the length of buf when none
\* does.
slow_count(m, address, buf) ==
    IF \A i \in 1 .. Len(buf) : can_write(m, address + i - 1) THEN Len(buf)
    ELSE (CHOOSE i \in 1 .. Len(buf) :
              /\ ~can_write(m, address + i - 1)
              /\ \A j \in 1 .. i - 1 : can_write(m, address + j - 1)) - 1

\* writemem(address, buf) on a byte memory: the number of bytes written and
\* the memory after it.  A restore that fails raises, so its output never
\* holds "error": the branch that looks for the first unmapped byte is not
\* taken.
writemem(m, address, buf) ==
    IF buf = <<>> THEN [n |-> 0, m |-> m]
    ELSE IF (IF getpid # 0 THEN restore_binary(m, address, buf) ELSE "") = ""
    THEN [n |-> slow_count(m, address, buf),
          m |-> store(m, address, buf, slow_count(m, address, buf))]
    ELSE [n |-> Len(buf), m |-> store(m, address, buf, Len(buf))]

\* What write_int gives: its Bool and the memory after it.
Wrote(ok, m) == [ok |-> ok, m |-> m]

write_int_unrestored(m, address, value) ==
    IF read_mem(m, address, WordBytes).st # "ok" THEN Wrote(FALSE, m)
    ELSE IF writemem(m, address, hex2str(value, WordBytes)).n # WordBytes
    THEN Wrote(FALSE, writemem(m, address, hex2str(value, WordBytes)).m)
    ELSE Wrote(TRUE, writemem(m, address, hex2str(value, WordBytes)).m)

\* write_int(address, value): the bytes there are saved, the value's bytes
\* written, and the saved bytes written back when not all of them were.
write_int(m, address, value) ==
    IF read_mem(m, address, WordBytes).st # "ok" THEN Wrote(FALSE, m)
    ELSE IF writemem(m, address, hex2str(value, WordBytes)).n # WordBytes
    THEN Wrote(FALSE, writemem(writemem(m, address, hex2str(value, WordBytes)).m,
                               address, read_mem(m, address, WordBytes).val).m)
    ELSE Wrote(TRUE, writemem(m, address, hex2str(value, WordBytes)).m)

\* read_int as the classifier sees it: the cell of the word at an address.
cell_at(m, a) ==
    IF read_mem(m, a, WordBytes).st # "ok" THEN NoMem
    ELSE IF \A i \in 1 .. WordBytes : is_printable_byte(read_mem(m, a, WordBytes).val[i])
    THEN StrCell
    ELSE WordCell(unpack(read_mem(m, a, WordBytes).val))

\* The memory by words that a memory by bytes holds.
words_of(m) == [a \in Addr |-> cell_at(m, a)]

\* The words written: all NUL, the letter A before NULs (not printable as a
\* whole), all letters (printable); and the addresses words are written and
\* classified at: the lowest and the highest a word fits at.
Words ==
    { unpack([i \in 1 .. WordBytes |-> 0]),
      unpack([i \in 1 .. WordBytes |-> IF i = 1 THEN 65 ELSE 0]),
      unpack([i \in 1 .. WordBytes |-> 65]) }
WordAddrs == {0, Top - WordBytes}

\* The byte memories: all NUL; the debugger writes below wtop, reads below
\* rtop.
ByteLayout(wtop, rtop) == [a \in Addr |-> Byte(0, a < rtop, a < wtop)]
ByteMemories ==
    { ByteLayout(Top, Top), ByteLayout(Top - 1, Top), ByteLayout(0, Top),
      ByteLayout(WordBytes, WordBytes) }

\* One range holds every address: the heap, or a library's read-only data.
WriteProcMaps ==
    { [readable |-> TRUE, lines |-> <<MapLine(0, Top, PermRW, HeapName)>>],
      [readable |-> TRUE, lines |-> <<MapLine(0, Top, PermRO, LibFile)>>] }

InitWrite ==
    /\ pid = 1
    /\ execfile = BinFile
    /\ target = "local"
    /\ procmaps \in WriteProcMaps
    /\ infofiles = MemInfoFiles
    /\ sections = MemSections
    /\ regsp = MaxAddr
    /\ bytemem \in ByteMemories
    /\ mem = words_of(bytemem)
    /\ written = NoWrite
    /\ call = NoCall
    /\ ret = RetNone
    /\ MemoIdle
    /\ SecIdle
    /\ IsaIdle
    /\ HookIdle

\* pedaGDBCommand.invoke for a command built on the engine's operations: the
\* cache is reset, then the command's function runs.
ScriptInvoked ==
    /\ stage = "prompt"
    /\ invocation < MaxInvocations
    /\ invocation' = invocation + 1
    /\ cache' = reset_cache
    /\ stage' = "body"
    /\ call' = NoCall
    /\ ret' = RetNone
    /\ served' = NoServed
    /\ UNCHANGED <<env, arch, stk, isa, wr, hk>>

\* The command classifies a value: examine_mem_value is memoized.
ScriptClassifies(value) ==
    /\ stage = "body"
    /\ served' = memoized(cache, CacheKey("examine_mem_value", value),
                          examine_mem_value(value), invocation)
    /\ cache' = memoized_store(cache, CacheKey("examine_mem_value", value),
                               examine_mem_value(value), invocation)
    /\ call' = Call("examine_mem_value", value, 0, SelNone)
    /\ ret' = served'.val
    /\ UNCHANGED <<env, arch, stk, invocation, stage, isa, wr, hk>>

\* The command writes a word: write_int is not memoized and resets nothing.
ScriptWrites(address, value) ==
    /\ stage = "body"
    /\ bytemem' = write_int(bytemem, address, value).m
    /\ mem' = words_of(bytemem')
    /\ written' = IF write_int(bytemem, address, value).ok
                  THEN [some |-> TRUE, at |-> address, word |-> value]
                  ELSE written
    /\ call' = Call("write_int", address, value, SelNone)
    /\ ret' = Ok(write_int(bytemem, address, value).ok)
    /\ served' = NoServed
    /\ UNCHANGED <<pid, execfile, target, procmaps, infofiles, sections, regsp,
                   arch, stk, cache, invocation, stage, isa, hk>>

\* The command's function returns.
ScriptEnds ==
    /\ stage = "body"
    /\ stage' = "prompt"
    /\ call' = NoCall
    /\ ret' = RetNone
    /\ served' = NoServed
    /\ UNCHANGED <<env, arch, stk, cache, invocation, isa, wr, hk>>

NextWrite ==
    \/ ScriptInvoked
    \/ \E value \in WordAddrs : ScriptClassifies(value)
    \/ \E address \in WordAddrs, value \in Words : ScriptWrites(address, value)
    \/ ScriptEnds

SpecWrite == InitWrite /\ [][NextWrite]_vars

\* -------------------------------------------------- properties of SpecWrite
\* The bytes of the word at an address.
BytesAt(m, address) == [i \in 1 .. WordBytes |-> m[address + i - 1].v]

\* C30: write_int is all-or-nothing: it returns True only if all the bytes
\* of the value were written at the address, and whenever it returns False
\* the bytes at [address, address + intsize) are those from before the call.
C30_AllOrNothing ==
    [][\A address \in WordAddrs, value \in Words :
           ScriptWrites(address, value) =>
               /\ ret'.val \in BOOLEAN
               /\ ret'.val => BytesAt(bytemem', address) = hex2str(value, WordBytes)
               /\ ~ret'.val => BytesAt(bytemem', address) = BytesAt(bytemem, address)]_vars

\* write_int returned False after a write that stopped short: the first byte
\* can be written and is not the value's, the last cannot.
C30_Witness ==
    /\ call.op = "write_int"
    /\ ret = Ok(FALSE)
    /\ read_mem(bytemem, call.value, WordBytes).st = "ok"
    /\ can_write(bytemem, call.value)
    /\ ~can_write(bytemem, call.value + WordBytes - 1)
    /\ hex2str(call.depth, WordBytes)[1] # 0

\* The command classified the address of the last word written, an address
\* of a writable range.
C23_Asked ==
    /\ call.op = "examine_mem_value"
    /\ written.some
    /\ call.value = written.at
    /\ is_writable(call.value, RetNone)

\* The payload a word is rendered as: the quoted string of its bytes when
\* they are all printable, else the word.
Rendered(word) ==
    IF \A i \in 1 .. WordBytes : is_printable_byte(hex2str(word, WordBytes)[i])
    THEN StrV("'" \o letters(WordBytes) \o "'")
    ELSE IntV(word)

RoundTrip ==
    /\ ret.st = "ok"
    /\ ret.val.t \in {"data", "heap"}
    /\ ret.val.vn = Rendered(written.word)

\* C23: after a word is written at a writable address with write_int,
\* classifying that address yields kind data or heap and the written word,
\* or the written string when its bytes are printable, as payload, also
\* when the address was classified earlier in the same command.
C23_RoundTrip == C23_Asked => RoundTrip

\* The classification was evaluated, not served from the cache, and the
\* byte after the word is a NUL.
C23_FreshAndTerminated ==
    /\ C23_Asked
    /\ ~served.hit
    /\ read_mem(bytemem, call.value + WordBytes, 1) = Ok(<<0>>)
    => RoundTrip

C23_FreshWord ==
    /\ C23_Asked
    /\ ~served.hit
    /\ Rendered(written.word) = IntV(written.word)
    => RoundTrip

\* ---------------------------------------------------------------------
\* The user-defined command hook-stop: saved, deactivated and restored
\* ---------------------------------------------------------------------

\* A body the user gives hook-stop.
UserHook == << <<"echo stopped">> >>

\* The first line of what "show user <cmd>" prints.
ShowHeader == <<"User command:">>

\* execute("show user %s" % cmd, to_string=True).splitlines(): the header,
\* the body's lines and an empty line.  For a command with an empty body
\* some versions of the debugger print the header alone, others nothing.
show_user(body) ==
    IF body = <<>> THEN (IF lists_empty THEN <<ShowHeader>> ELSE <<>>)
    ELSE <<ShowHeader>> \o body \o << <<>> >>

\* "define %s\n" % cmd + "\n".join(lines) + "end\n", as its lines: the last
\* of the joined lines has no newline of its own, "end" is glued to it.
definition(cmd, lines) ==
    IF lines = <<>> THEN << <<"define", cmd>>, <<"end">> >>
    ELSE << <<"define", cmd>> >> \o SubSeq(lines, 1, Len(lines) - 1)
             \o << lines[Len(lines)] \o <<"end">> >>

\* The lines of a definition between "define" and the first line "end";
\* without such a line the definition is not complete.
RECURSIVE body_lines(_)
body_lines(text) ==
    IF text = <<>> THEN [ok |-> FALSE, body |-> <<>>]
    ELSE IF Head(text) = <<"end">> THEN [ok |-> TRUE, body |-> <<>>]
    ELSE [ok |-> body_lines(Tail(text)).ok,
          body |-> <<Head(text)>> \o body_lines(Tail(text)).body]

\* execute("source <file>") of one definition of hook-stop: the body the
\* command has afterwards.
source(text, body) ==
    IF text # <<>> /\ body_lines(Tail(text)).ok THEN body_lines(Tail(text)).body
    ELSE body

\* The hook and the saved commands, as a call leaves them.
Hooks(hook, saved) == [hook |-> hook, saved |-> saved]

\* save_user_command("hook-stop"): nothing when "show user" prints nothing;
\* else the definition is kept and hook-stop is defined empty.
save_user_command(h) ==
    IF show_user(h.hook) = <<>> THEN h
    ELSE Hooks(source(definition("hook-stop", <<>>), h.hook),
               [c \in DOMAIN h.saved \cup {"hook-stop"} |->
                   IF c = "hook-stop" THEN definition("hook-stop", Tail(show_user(h.hook)))
                   ELSE h.saved[c]])

\* restore_user_command(cmd): the saved definition, or every one for "all",
\* is sourced and forgotten.
restore_user_command(h, cmd) ==
    IF cmd # "all" /\ cmd \notin DOMAIN h.saved THEN h
    ELSE IF "hook-stop" \in DOMAIN h.saved
    THEN Hooks(source(h.saved["hook-stop"], h.hook), NoCommands)
    ELSE Hooks(h.hook, NoCommands)

\* sigint_handler, connected to the debugger's stop events.
sigint_handler(h) == IF enabled THEN restore_user_command(h, "all") ELSE h

\* The state of the hook now.
Now == Hooks(hook_stop, SAVED_COMMANDS)

\* PEDACmd.start on a position-independent file with no breakpoint at main:
\* the debuggee stops after "starti" and again at the entry point.
start ==
    sigint_handler(restore_user_command(sigint_handler(save_user_command(Now)),
                                        "hook-stop"))

InitHook ==
    /\ pid = 1
    /\ execfile = BinFile
    /\ target = "local"
    /\ procmaps = <<>>
    /\ infofiles = <<>>
    /\ sections = <<>>
    /\ regsp = 0
    /\ mem = [a \in Addr |-> NoMem]
    /\ call = NoCall
    /\ ret = RetNone
    /\ MemoIdle
    /\ SecIdle
    /\ IsaIdle
    /\ WriteIdle
    /\ hook_stop = PedaHook
    /\ SAVED_COMMANDS = NoCommands
    /\ enabled = TRUE
    /\ lists_empty \in BOOLEAN
    /\ at_disable = NotDisabled

\* What an action on the hook leaves alone.
HookFrame == UNCHANGED <<env, arch, stk, cache, invocation, served, isa, wr, lists_empty>>

\* A command leaves the hook and the saved commands as h.
SetHooks(h) == hook_stop' = h.hook /\ SAVED_COMMANDS' = h.saved

\* "peda disable"
Disable ==
    /\ stage = "prompt"
    /\ call' = Call("disable", 0, 0, SelNone)
    /\ ret' = Ok(enabled)
    /\ IF enabled
       THEN /\ SetHooks(save_user_command(Now))
            /\ enabled' = FALSE
            /\ at_disable' = [some |-> TRUE, body |-> hook_stop]
       ELSE UNCHANGED <<hook_stop, SAVED_COMMANDS, enabled, at_disable>>
    /\ UNCHANGED stage
    /\ HookFrame

\* "peda enable"
Enable ==
    /\ stage = "prompt"
    /\ call' = Call("enable", 0, 0, SelNone)
    /\ ret' = Ok(~enabled)
    /\ IF ~enabled
       THEN /\ SetHooks(restore_user_command(Now, "all"))
            /\ enabled' = TRUE
       ELSE UNCHANGED <<hook_stop, SAVED_COMMANDS, enabled>>
    /\ UNCHANGED <<stage, at_disable>>
    /\ HookFrame

\* "peda stepuntil" and "peda profile", to the start of their stepping:
\* peda.save_user_command("hook-stop")
StepStart(cmd) ==
    /\ stage = "prompt"
    /\ call' = Call(cmd, 0, 0, SelNone)
    /\ ret' = RetNone
    /\ SetHooks(save_user_command(Now))
    /\ stage' = "stepping"
    /\ UNCHANGED <<enabled, at_disable>>
    /\ HookFrame

\* One "stepi" (and "finish") of the loop: the debuggee stops, and the stop
\* event runs sigint_handler.
Step ==
    /\ stage = "stepping"
    /\ SetHooks(sigint_handler(Now))
    /\ UNCHANGED <<call, ret, stage, enabled, at_disable>>
    /\ HookFrame

\* The stepping is over: peda.restore_user_command("hook-stop")
StepEnd ==
    /\ stage = "stepping"
    /\ SetHooks(restore_user_command(Now, "hook-stop"))
    /\ stage' = "prompt"
    /\ ret' = Ok(TRUE)
    /\ UNCHANGED <<call, enabled, at_disable>>
    /\ HookFrame

\* PEDA.stepuntil raises in its loop (an instruction pattern that is no
\* regular expression): invoke catches it, restore_user_command("all")
StepRaises ==
    /\ stage = "stepping"
    /\ call.op = "stepuntil"
    /\ SetHooks(restore_user_command(Now, "all"))
    /\ stage' = "prompt"
    /\ ret' = Raised
    /\ UNCHANGED <<call, enabled, at_disable>>
    /\ HookFrame

\* "peda start"
Start ==
    /\ stage = "prompt"
    /\ call' = Call("start", 0, 0, SelNone)
    /\ ret' = Ok(TRUE)
    /\ SetHooks(start)
    /\ UNCHANGED <<stage, enabled, at_disable>>
    /\ HookFrame

\* A command that raises before it does anything (a missing argument):
\* invoke catches it, restore_user_command("all")
CommandRaises ==
    /\ stage = "prompt"
    /\ call' = Call("raises", 0, 0, SelNone)
    /\ ret' = Raised
    /\ SetHooks(restore_user_command(Now, "all"))
    /\ UNCHANGED <<stage, enabled, at_disable>>
    /\ HookFrame

\* With PEDA enabled the user defines hook-stop anew at the prompt.
UserDefines(body) ==
    /\ stage = "prompt"
    /\ enabled
    /\ body # hook_stop
    /\ hook_stop' = body
    /\ call' = NoCall
    /\ ret' = RetNone
    /\ UNCHANGED <<stage, SAVED_COMMANDS, enabled, at_disable>>
    /\ HookFrame

NextHook ==
    \/ Disable
    \/ Enable
    \/ \E cmd \in {"stepuntil", "profile"} : StepStart(cmd)
    \/ Step
    \/ StepEnd
    \/ StepRaises
    \/ Start
    \/ CommandRaises
    \/ \E body \in {PedaHook, UserHook} : UserDefines(body)

SpecHook == InitHook /\ [][NextHook]_vars

\* --------------------------------------------------- properties of SpecHook
\* C28: while stepuntil or profile is stepping the debuggee, hook-stop stays
\* deactivated from the command's save_user_command to its own
\* restore_user_command: no stop event of a step activates it again.
C28_DeactivatedWhileStepping == stage = "stepping" => hook_stop = <<>>

C28_WhileDisabled == stage = "stepping" /\ ~enabled => hook_stop = <<>>

\* C29: disable, any commands, then enable leaves hook-stop defined as it
\* was before disable; and while PEDA is disabled the definition hook-stop
\* had is held in SAVED_COMMANDS and hook-stop is deactivated.
C29_DisableKeepsHook ==
    /\ ~enabled =>
           /\ hook_stop = <<>>
           /\ "hook-stop" \in DOMAIN SAVED_COMMANDS
           /\ source(SAVED_COMMANDS["hook-stop"], <<>>) = at_disable.body
    /\ call.op = "enable" /\ ret = Ok(TRUE) => hook_stop = at_disable.body

\* enable straight after disable gives hook-stop its body back.
C29_EnableAfterDisable ==
    [][call.op = "disable" /\ ret = Ok(TRUE) /\ Enable => hook_stop' = at_disable.body]_vars

====
